---- MODULE Spec2Model ----
(***************************************************************************)
(* Meeting summarizer: the /api/summarize request handler, the provider    *)
(* dispatcher (Hugging Face first, Gemini as fallback) and the             *)
(* normalization of a provider's text completion into a SlideDeck, as      *)
(* implemented by the Express server (server.js) and by the Cloudflare     *)
(* Pages function (functions/[[path]].js).                                 *)
(*                                                                         *)
(* Texts are sequences of lexemes.  A lexeme is a whitespace character     *)
(* (sp, nl), a code fence of three backticks (fence), the word json, a     *)
(* word of commentary (txt), a brace or bracket, or one JSON member        *)
(* (for instance sum stands for the member summary with a string value).   *)
(* Error messages are sequences of words, so that                          *)
(* error.message.includes(JSON) and the wrapping of a message in           *)
(* AI generation failed: <message> are computed, not assumed.              *)
(*                                                                         *)
(* The module also holds the /api/transcribe handler with the retry of     *)
(* the speech recognition request (TranscribeSpec), several /api/summarize *)
(* requests served at once (ConcurrentSpec), and the page script           *)
(* (script.js) that shows, edits and exports the deck (ClientSpec), saves   *)
(* the edits (EditSpec), and takes the audio path, the file selection and  *)
(* the slide viewer (PageSpec, and PageFairSpec in which every fetch       *)
(* settles).  PairSpec runs the two servers side by side on the same       *)
(* inputs.  All specifications start from Init; each exercises its own     *)
(* operations and leaves the state of the others at rest.                  *)
(***************************************************************************)
EXTENDS Integers, Sequences, FiniteSets, TLC

VARIABLES
    platform,    \* "express" (server.js) or "cloudflare" (functions/[[path]].js)
    hfKey,       \* HUGGINGFACE_API_KEY is set
    geminiKey,   \* GEMINI_API_KEY is set
    genAI,       \* server.js: the Gemini client was constructed at start-up
    pc,          \* where the summarize handler is suspended
    transcript,  \* the transcript of the request being served
    calls,       \* the outbound provider calls of this request, in order
    inflight,    \* the providers whose call has not settled yet
    lastResp,    \* the provider response the handler consumed last
    hfError,     \* the error generateWithHuggingFace threw, if it threw
    geminiError, \* the error generateWithGoogle threw, if it threw
    response     \* the HTTP response sent to the caller

\* POST /api/transcribe
VARIABLES
    tpc,         \* where the transcribe handler is suspended
    audioField,  \* what the request carries in its form field audio
    upload,      \* where the uploaded bytes are: temporary file or memory
    asrCalls,    \* the requests sent to the speech recognition endpoint, in order
    asrSeen,     \* the answers of the endpoint the handler consumed, in order
    waits,       \* the delays, in milliseconds, of the timers the handler set
    tResponse    \* the HTTP response sent to the caller of /api/transcribe

summarizeVars == <<platform, hfKey, geminiKey, genAI, pc, transcript, calls, inflight,
                   lastResp, hfError, geminiError, response>>

transcribeVars == <<tpc, audioField, upload, asrCalls, asrSeen, waits, tResponse>>

\* /api/summarize requests served at once
VARIABLES
    reqs         \* for each request: where it is, its transcript, calls, answers, response

concurrentVars == <<reqs>>

\* the page script
VARIABLES
    cpc,            \* where processTranscript is suspended
    loading,        \* setLoading: the submit buttons are disabled
    errorMessage,   \* the error element: hidden or not, and its text
    slidesData,     \* window.slidesData
    summaryData,    \* window.summaryData
    summaryContent, \* the text of the summary element
    slidesContent,  \* the text of the slides preview element
    resultsHidden,  \* the results section is hidden
    editOpen,       \* the edit modal is open
    editForm,       \* the inputs of the edit form: for each slide, its point indices
    artifact,       \* the document the handler that ran last handed to the browser
    submitAudioDisabled, \* the property disabled of the button submit-audio
    hideTimers      \* the number of pending timers that will call hideError

clientVars == <<cpc, loading, errorMessage, slidesData, summaryData, summaryContent,
                slidesContent, resultsHidden, editOpen, editForm, artifact,
                submitAudioDisabled, hideTimers>>

\* the page script: the audio tab and the slide viewer
VARIABLES
    apc,               \* where processAudio is suspended
    audioInputFile,    \* the type of audioInput.files[0], or none
    fileInfoShown,     \* the file info is shown and the upload area is hidden
    currentSlideIndex, \* the index of the slide the viewer shows
    viewerOpen,        \* the slides modal is open
    nextSlideDisabled  \* the property disabled of the button next-slide

pageVars == <<apc, audioInputFile, fileInfoShown, currentSlideIndex, viewerOpen,
              nextSlideDisabled>>

\* the state of the servers
serverVars == <<summarizeVars, transcribeVars, concurrentVars>>

vars == <<serverVars, clientVars, pageVars>>

(***************************************************************************)
(* Bounds of the model.                                                    *)
(***************************************************************************)
\* the largest number of slides in a provider's JSON document
MaxSlides == 1

\* the largest number of words of commentary before or after the JSON
MaxCommentary == 1

(***************************************************************************)
(* Program constants.                                                      *)
(***************************************************************************)
MinTranscriptLength == 50

(***************************************************************************)
(* Request bodies.                                                         *)
(***************************************************************************)
Str(len, trimLen) ==
    [type |-> "string", truthy |-> len > 0, len |-> len, trimLen |-> trimLen]

NonStr(type, truthy, len) ==
    [type |-> type, truthy |-> truthy, len |-> len, trimLen |-> 0]

\* the transcript field of a request body: absent, null, a number, an array,
\* and strings given by their length and their length after trim()
Transcripts ==
    { NonStr("undefined", FALSE, 0), NonStr("null", FALSE, 0),
      NonStr("number", FALSE, 0), NonStr("number", TRUE, 0),
      NonStr("array", TRUE, MinTranscriptLength + 10) }
    \cup { Str(0, 0), Str(5, 5), Str(MinTranscriptLength - 1, MinTranscriptLength - 1),
           Str(MinTranscriptLength - 1, 0), Str(MinTranscriptLength + 10, 0),
           Str(MinTranscriptLength, MinTranscriptLength), Str(MinTranscriptLength, 3),
           Str(MinTranscriptLength + 10, MinTranscriptLength + 10) }

NoTranscript == NonStr("none", FALSE, 0)

(***************************************************************************)
(* Lexemes and strings.                                                    *)
(***************************************************************************)
IsSpace(c) == c \in {"sp", "nl"}

\* String.prototype.trim
RECURSIVE TrimStart(_)
TrimStart(s) ==
    IF s # <<>> /\ IsSpace(Head(s)) THEN TrimStart(Tail(s)) ELSE s

RECURSIVE TrimEnd(_)
TrimEnd(s) ==
    IF s # <<>> /\ IsSpace(s[Len(s)]) THEN TrimEnd(SubSeq(s, 1, Len(s) - 1)) ELSE s

Trim(s) == TrimEnd(TrimStart(s))

\* String.prototype.startsWith
StartsWith(s, p) == Len(s) >= Len(p) /\ SubSeq(s, 1, Len(p)) = p

\* replace(/FENCEjson\n?/g, ''): every fence followed by the word json, and a newline after it
RECURSIVE RemoveJsonFences(_)
RemoveJsonFences(s) ==
    IF s = <<>> THEN <<>>
    ELSE IF StartsWith(s, <<"fence", "json", "nl">>) THEN RemoveJsonFences(SubSeq(s, 4, Len(s)))
    ELSE IF StartsWith(s, <<"fence", "json">>) THEN RemoveJsonFences(SubSeq(s, 3, Len(s)))
    ELSE <<Head(s)>> \o RemoveJsonFences(Tail(s))

\* replace(/FENCE\n?/g, ''): every fence, and a newline after it
RECURSIVE RemoveFences(_)
RemoveFences(s) ==
    IF s = <<>> THEN <<>>
    ELSE IF StartsWith(s, <<"fence", "nl">>) THEN RemoveFences(SubSeq(s, 3, Len(s)))
    ELSE IF StartsWith(s, <<"fence">>) THEN RemoveFences(Tail(s))
    ELSE <<Head(s)>> \o RemoveFences(Tail(s))

\* remove markdown code blocks if present
StripFences(s) ==
    IF StartsWith(s, <<"fence", "json">>) THEN RemoveFences(RemoveJsonFences(s))
    ELSE IF StartsWith(s, <<"fence">>) THEN RemoveFences(s)
    ELSE s

Positions(s, c) == { i \in 1..Len(s) : s[i] = c }

Min(S) == CHOOSE x \in S : \A y \in S : x <= y

Max(S) == CHOOSE x \in S : \A y \in S : x >= y

\* jsonText.match of an opening brace, anything, a closing brace: greedy,
\* from the first opening brace to the last closing brace
HasBraceMatch(s) ==
    /\ Positions(s, "{") # {}
    /\ Positions(s, "}") # {}
    /\ Min(Positions(s, "{")) < Max(Positions(s, "}"))

ExtractBraces(s) ==
    IF HasBraceMatch(s)
    THEN SubSeq(s, Min(Positions(s, "{")), Max(Positions(s, "}")))
    ELSE s

\* String.prototype.includes on a message
Includes(msg, word) == \E i \in 1..Len(msg) : msg[i] = word

(***************************************************************************)
(* JSON documents.  A parsed object keeps the three members the program    *)
(* can tell apart: summary, slides and one unrelated member.               *)
(***************************************************************************)
Absent == "absent"

EmptyObject ==
    [summary |-> Absent, slides |-> [type |-> Absent, items |-> <<>>], extra |-> Absent]

EmptySlide == [title |-> Absent, points |-> Absent]

SlideMembers == {"title", "points", "points0"}

NoSpace(s) == SelectSeq(s, LAMBDA c : ~IsSpace(c))

\* the members of one slide object; a repeated key keeps its last value
RECURSIVE SlideOf(_, _)
SlideOf(members, acc) ==
    IF members = <<>> THEN acc
    ELSE SlideOf(Tail(members),
                 CASE Head(members) = "title" -> [acc EXCEPT !.title = "t"]
                   [] Head(members) = "points" -> [acc EXCEPT !.points = "[p]"]
                   [] OTHER -> [acc EXCEPT !.points = "[]"])

\* the elements of the slides array: objects of slide members
RECURSIVE ParseSlides(_)
ParseSlides(s) ==
    IF s = <<>> THEN [ok |-> TRUE, items |-> <<>>]
    ELSE IF Head(s) # "{" \/ Positions(s, "}") = {} THEN [ok |-> FALSE, items |-> <<>>]
    ELSE LET k == Min(Positions(s, "}"))
             members == SubSeq(s, 2, k - 1)
             rest == ParseSlides(SubSeq(s, k + 1, Len(s)))
         IN  IF rest.ok /\ \A i \in 1..Len(members) : members[i] \in SlideMembers
             THEN [ok |-> TRUE, items |-> <<SlideOf(members, EmptySlide)>> \o rest.items]
             ELSE [ok |-> FALSE, items |-> <<>>]

\* the members of the top-level object
RECURSIVE ParseMembers(_, _)
ParseMembers(s, acc) ==
    IF s = <<>> THEN [ok |-> TRUE, val |-> acc]
    ELSE CASE Head(s) = "sum" ->
                ParseMembers(Tail(s), [acc EXCEPT !.summary = "text"])
           [] Head(s) = "sum0" ->
                ParseMembers(Tail(s), [acc EXCEPT !.summary = ""])
           [] Head(s) = "extra" ->
                ParseMembers(Tail(s), [acc EXCEPT !.extra = "x"])
           [] Head(s) = "slides:str" ->
                ParseMembers(Tail(s),
                             [acc EXCEPT !.slides = [type |-> "string", items |-> <<>>]])
           [] Head(s) = "slides:[" /\ Positions(s, "]") # {} ->
                LET j == Min(Positions(s, "]"))
                    sl == ParseSlides(SubSeq(s, 2, j - 1))
                IN  IF sl.ok
                    THEN ParseMembers(SubSeq(s, j + 1, Len(s)),
                                      [acc EXCEPT !.slides =
                                           [type |-> "array", items |-> sl.items]])
                    ELSE [ok |-> FALSE, val |-> EmptyObject]
           [] OTHER -> [ok |-> FALSE, val |-> EmptyObject]

\* JSON.parse: whitespace between lexemes is insignificant; the text must be
\* the literal null or one object; anything else is a SyntaxError
JSONParse(s) ==
    LET t == NoSpace(s)
    IN  IF t = <<"null">> THEN [ok |-> TRUE, isNull |-> TRUE, val |-> EmptyObject]
        ELSE IF Len(t) >= 2 /\ t[1] = "{" /\ t[Len(t)] = "}"
        THEN LET m == ParseMembers(SubSeq(t, 2, Len(t) - 1), EmptyObject)
             IN  [ok |-> m.ok, isNull |-> FALSE, val |-> m.val]
        ELSE [ok |-> FALSE, isNull |-> FALSE, val |-> EmptyObject]

\* JavaScript truthiness of a member that is absent or a string
Truthy(v) == v # Absent /\ v # ""

\* Array.isArray(parsed.slides)
IsArray(v) == v.type = "array"

\* faulty variant: a validation that accepts any truthy slides member
InvalidShapeWithoutArrayCheck(parsed) ==
    ~Truthy(parsed.summary) \/ parsed.slides.type = Absent

\* !parsed.summary || !parsed.slides || !Array.isArray(parsed.slides)
InvalidShape(parsed) ==
    \/ ~Truthy(parsed.summary)
    \/ parsed.slides.type = Absent
    \/ ~IsArray(parsed.slides)

(***************************************************************************)
(* The texts a provider may answer with.                                   *)
(***************************************************************************)
RECURSIVE Rep(_, _)
Rep(c, n) == IF n = 0 THEN <<>> ELSE <<c>> \o Rep(c, n - 1)

SlideKinds ==
    { <<"{", "title", "points", "}">>, <<"{", "points", "}">>, <<"{", "title", "}">> }

RECURSIVE SlideLists(_)
SlideLists(n) ==
    IF n = 0 THEN { <<>> }
    ELSE LET prev == SlideLists(n - 1)
         IN  prev \cup { p \o k : p \in prev, k \in SlideKinds }

SummaryMembers == { <<>>, <<"sum">>, <<"sum0">> }

SlidesMembers ==
    { <<>>, <<"slides:str">> }
    \cup { <<"slides:[">> \o l \o <<"]">> : l \in SlideLists(MaxSlides) }

Objects ==
    { <<"{">> \o a \o b \o <<"}">> : a \in SummaryMembers, b \in SlidesMembers }
    \cup { <<"{", "slides:[", "]", "sp", "sum", "extra", "}">>,
           <<"{", "sum0", "sum", "nl", "slides:[", "{", "title", "points0", "}", "]", "}">> }

Malformed ==
    { <<>>, <<"null">>, <<"{", "sum", "slides:[", "]">>, <<"{", "sum", "txt", "}">>,
      <<"{", "sum", "slides:[", "{", "title", "]", "}">> }

Bodies == Objects \cup Malformed

\* what precedes the document: nothing, a newline, commentary, commentary
\* that itself holds braces
Prefixes ==
    { <<>>, <<"nl">>, <<"txt", "{", "txt", "}", "nl">> }
    \cup { Rep("txt", n) \o <<"nl">> : n \in 1..MaxCommentary }

Suffixes ==
    { <<>>, <<"nl">> } \cup { <<"nl">> \o Rep("txt", n) : n \in 1..MaxCommentary }

\* the fences around the document: none, plain, or tagged json
Fencings ==
    { <<<<>>, <<>>>>, <<<<"fence", "nl">>, <<"nl", "fence">>>>,
      <<<<"fence", "json", "nl">>, <<"nl", "fence">>>>, <<<<"fence", "json">>, <<"fence">>>> }

Texts ==
    { p \o f[1] \o b \o f[2] \o q :
        p \in Prefixes, f \in Fencings, b \in Bodies, q \in Suffixes }

\* a few texts, for the envelopes that differ only in where the text sits
SampleTexts ==
    { f[1] \o b \o f[2] :
        f \in Fencings,
        b \in { <<"{", "sum", "slides:[", "]", "}">>, <<"{", "sum", "}">>, <<"{", "sum">> } }

(***************************************************************************)
(* Error messages, as sequences of words.                                  *)
(***************************************************************************)
FailedToParse == <<"Failed to parse AI response. Please try again.">>

GenerationFailed(msg) == <<"AI generation failed:">> \o msg

\* the message of the SyntaxError JSON.parse and Response.json() throw
SyntaxErrorMessage == <<"Unexpected token in", "JSON", "at position 0">>

\* the message of the TypeError a property read on null throws
TypeErrorMessage == <<"Cannot read properties of null">>

\* the message of the TypeError fetch rejects with
FetchFailed == <<"fetch failed">>

NoAIConfigured(plat) ==
    IF plat = "express"
    THEN <<"No AI API configured. Please add HUGGINGFACE_API_KEY or GEMINI_API_KEY",
           "to your .env file">>
    ELSE <<"No AI API configured. Please add HUGGINGFACE_API_KEY or GEMINI_API_KEY">>

\* the error bodies a provider sends with a non-2xx status
ErrorTexts == { <<"Model is currently loading">>, <<"Invalid", "JSON", "payload">> }

ErrorStatuses == {401, 500, 503}

(***************************************************************************)
(* Provider responses and the outcome of one provider attempt.             *)
(***************************************************************************)
Resp(kind, status, errText, envelope, text) ==
    [kind |-> kind, status |-> status, errText |-> errText,
     envelope |-> envelope, text |-> text]

NoResponse == Resp("none", 0, <<>>, "none", <<>>)

NetworkFailures == { Resp("network", 0, <<>>, "none", <<>>) }

HttpFailures ==
    { Resp("http", st, e, "none", <<>>) : st \in ErrorStatuses, e \in ErrorTexts }

\* a 2xx answer of the Hugging Face inference API: a body that is not JSON,
\* null, some other JSON value, or the generated text in an array, in an
\* object, or as a bare string
HFResponses ==
    NetworkFailures \cup HttpFailures
    \cup { Resp("ok", 200, <<>>, e, <<>>) : e \in {"notjson", "null", "other"} }
    \cup { Resp("ok", 200, <<>>, "array", t) : t \in Texts }
    \cup { Resp("ok", 200, <<>>, e, t) : e \in {"object", "string"}, t \in SampleTexts \cup {<<>>} }

\* server.js reaches Gemini through the SDK: generateContent rejects on a
\* network or HTTP failure, response.text() throws on a blocked answer
ExpressGeminiResponses ==
    NetworkFailures \cup HttpFailures
    \cup { Resp("ok", 200, <<>>, "blocked", <<>>) }
    \cup { Resp("ok", 200, <<>>, "text", t) : t \in Texts }

\* the Cloudflare function reaches Gemini with fetch
CloudflareGeminiResponses ==
    NetworkFailures \cup HttpFailures
    \cup { Resp("ok", 200, <<>>, e, <<>>) : e \in {"notjson", "nocandidates"} }
    \cup { Resp("ok", 200, <<>>, "text", t) : t \in Texts }

NoError == [kind |-> "none", msg |-> <<>>]

Ok(deck) == [ok |-> TRUE, deck |-> deck, err |-> NoError]

\* kind records which failure happened; the program sees the message only
Fail(kind, msg) == [ok |-> FALSE, deck |-> EmptyObject, err |-> [kind |-> kind, msg |-> msg]]

(***************************************************************************)
(* Prompt construction.                                                    *)
(***************************************************************************)
PromptTemplate == "expert meeting summarizer: summary and slides as JSON only"

HFPrompt(t) == [template |-> PromptTemplate, transcript |-> t]

\* faulty variant: a Gemini prompt that leaves the transcript out
GooglePromptWithoutTranscript(t) == [template |-> PromptTemplate, transcript |-> NoTranscript]

GooglePrompt(t) == [template |-> PromptTemplate, transcript |-> t]

(***************************************************************************)
(* server.js: one attempt on each provider.                                *)
(***************************************************************************)
\* the try block of generateWithHuggingFace
ExpressHFTry(r) ==
    IF r.kind = "network" THEN Fail("network", FetchFailed)
    ELSE IF r.kind = "http" THEN Fail("http", <<"Hugging Face API error:">> \o r.errText)
    ELSE IF r.envelope = "notjson" THEN Fail("body", SyntaxErrorMessage)
    ELSE IF r.envelope = "null" THEN Fail("type", TypeErrorMessage)
    ELSE IF r.envelope = "other" \/ (r.envelope \in {"array", "object"} /\ r.text = <<>>)
    THEN Fail("envelope", <<"Unexpected response format from Hugging Face">>)
    ELSE LET trimmed == Trim(r.text)
             stripped == StripFences(trimmed)
             jsonText == ExtractBraces(stripped)
             parsed == JSONParse(jsonText)
         IN  IF ~parsed.ok THEN Fail("parse", SyntaxErrorMessage)
             ELSE IF parsed.isNull THEN Fail("type", TypeErrorMessage)
             ELSE IF InvalidShape(parsed.val)
             THEN Fail("shape", <<"Invalid response format from Hugging Face">>)
             ELSE Ok(parsed.val)

\* faulty variant: a catch block that reports every failure as a parse failure
ExpressCatchAllAsParse(res) ==
    IF res.ok THEN res ELSE Fail(res.err.kind, FailedToParse)

\* faulty variant: a catch block that never looks for JSON in the message
ExpressCatchWithoutJsonCheck(res) ==
    IF res.ok THEN res ELSE Fail(res.err.kind, GenerationFailed(res.err.msg))

\* the catch block: a message that mentions JSON becomes the parse message
ExpressCatch(res) ==
    IF res.ok THEN res
    ELSE IF Includes(res.err.msg, "JSON") THEN Fail(res.err.kind, FailedToParse)
    ELSE Fail(res.err.kind, GenerationFailed(res.err.msg))

ExpressGenerateWithHuggingFace(r) == ExpressCatch(ExpressHFTry(r))

\* the try block of generateWithGoogle: no brace extraction
ExpressGoogleTry(r) ==
    IF r.kind = "network"
    THEN Fail("network", <<"[GoogleGenerativeAI Error]:", "Error fetching:">> \o FetchFailed)
    ELSE IF r.kind = "http"
    THEN Fail("http", <<"[GoogleGenerativeAI Error]:", "Error fetching:">> \o r.errText)
    ELSE IF r.envelope = "blocked"
    THEN Fail("envelope", <<"[GoogleGenerativeAI Error]:", "Response was blocked">>)
    ELSE LET trimmed == Trim(r.text)
             jsonText == StripFences(trimmed)
             parsed == JSONParse(jsonText)
         IN  IF ~parsed.ok THEN Fail("parse", SyntaxErrorMessage)
             ELSE IF parsed.isNull THEN Fail("type", TypeErrorMessage)
             ELSE IF InvalidShape(parsed.val)
             THEN Fail("shape", <<"Invalid response format from Gemini">>)
             ELSE Ok(parsed.val)

ExpressGenerateWithGoogle(r) == ExpressCatch(ExpressGoogleTry(r))

(***************************************************************************)
(* functions/[[path]].js: one attempt on each provider.  No try/catch:     *)
(* the error thrown is the error the dispatcher sees.                      *)
(***************************************************************************)
\* faulty variant: a port of generateWithHuggingFace that lost the brace extraction
CloudflareGenerateWithHuggingFaceNoExtraction(r) ==
    IF r.kind = "network" THEN Fail("network", FetchFailed)
    ELSE IF r.kind = "http" THEN Fail("http", <<"Hugging Face API error:">> \o r.errText)
    ELSE IF r.envelope = "notjson" THEN Fail("body", SyntaxErrorMessage)
    ELSE IF r.envelope = "null" THEN Fail("type", TypeErrorMessage)
    ELSE IF r.envelope = "other" \/ (r.envelope \in {"array", "object"} /\ r.text = <<>>)
    THEN Fail("envelope", <<"Unexpected response format from Hugging Face">>)
    ELSE LET trimmed == Trim(r.text)
             jsonText == StripFences(trimmed)
             parsed == JSONParse(jsonText)
         IN  IF ~parsed.ok THEN Fail("parse", SyntaxErrorMessage)
             ELSE IF parsed.isNull THEN Fail("type", TypeErrorMessage)
             ELSE IF InvalidShape(parsed.val)
             THEN Fail("shape", <<"Invalid response format from Hugging Face">>)
             ELSE Ok(parsed.val)

CloudflareGenerateWithHuggingFace(r) ==
    IF r.kind = "network" THEN Fail("network", FetchFailed)
    ELSE IF r.kind = "http" THEN Fail("http", <<"Hugging Face API error:">> \o r.errText)
    ELSE IF r.envelope = "notjson" THEN Fail("body", SyntaxErrorMessage)
    ELSE IF r.envelope = "null" THEN Fail("type", TypeErrorMessage)
    ELSE IF r.envelope = "other" \/ (r.envelope \in {"array", "object"} /\ r.text = <<>>)
    THEN Fail("envelope", <<"Unexpected response format from Hugging Face">>)
    ELSE LET trimmed == Trim(r.text)
             stripped == StripFences(trimmed)
             jsonText == ExtractBraces(stripped)
             parsed == JSONParse(jsonText)
         IN  IF ~parsed.ok THEN Fail("parse", SyntaxErrorMessage)
             ELSE IF parsed.isNull THEN Fail("type", TypeErrorMessage)
             ELSE IF InvalidShape(parsed.val)
             THEN Fail("shape", <<"Invalid response format from Hugging Face">>)
             ELSE Ok(parsed.val)

CloudflareGenerateWithGoogle(r) ==
    IF r.kind = "network" THEN Fail("network", FetchFailed)
    ELSE IF r.kind = "http" THEN Fail("http", <<"Gemini API error:">> \o r.errText)
    ELSE IF r.envelope = "notjson" THEN Fail("body", SyntaxErrorMessage)
    ELSE IF r.envelope = "nocandidates"
    THEN Fail("envelope", <<"Invalid response from Gemini API">>)
    ELSE LET trimmed == Trim(r.text)
             jsonText == StripFences(trimmed)
             parsed == JSONParse(jsonText)
         IN  IF ~parsed.ok THEN Fail("parse", SyntaxErrorMessage)
             ELSE IF parsed.isNull THEN Fail("type", TypeErrorMessage)
             ELSE IF InvalidShape(parsed.val)
             THEN Fail("shape", <<"Invalid response format from Gemini">>)
             ELSE Ok(parsed.val)

GenerateWithHuggingFace(plat, r) ==
    IF plat = "express" THEN ExpressGenerateWithHuggingFace(r)
    ELSE CloudflareGenerateWithHuggingFace(r)

GenerateWithGoogle(plat, r) ==
    IF plat = "express" THEN ExpressGenerateWithGoogle(r)
    ELSE CloudflareGenerateWithGoogle(r)

GeminiResponses(plat) ==
    IF plat = "express" THEN ExpressGeminiResponses ELSE CloudflareGeminiResponses

(***************************************************************************)
(* The /api/summarize handler and the provider dispatcher.                 *)
(***************************************************************************)
\* faulty variant: the handler without its length guard
ValidateWithoutLength(t) ==
    IF ~t.truthy \/ t.type # "string" \/ t.trimLen = 0 THEN "required" ELSE "ok"

\* faulty variant: a length guard that refuses a transcript of exactly 50 characters
ValidateOffByOne(t) ==
    IF ~t.truthy \/ t.type # "string" \/ t.trimLen = 0 THEN "required"
    ELSE IF t.len <= MinTranscriptLength THEN "short"
    ELSE "ok"

\* the two guards of the handler, in order
Validate(t) ==
    IF ~t.truthy \/ t.type # "string" \/ t.trimLen = 0 THEN "required"
    ELSE IF t.len < MinTranscriptLength THEN "short"
    ELSE "ok"

\* what tells the dispatcher that Gemini is usable
GoogleAvailable(plat, client, key) == IF plat = "express" THEN client ELSE key

\* faulty variant: a dispatcher that calls Gemini whenever Hugging Face is not configured
FirstProviderDefaultingToGemini(hf, google) == IF hf THEN "hf" ELSE "gemini"

\* generateSummaryAndSlides, before any await: the provider to call first
FirstProvider(hf, google) ==
    IF hf THEN "hf" ELSE IF google THEN "gemini" ELSE "none"

\* faulty variant: a dispatcher that falls back to Gemini without looking for its client
FallbackProviderAlways(google) == "gemini"

\* generateSummaryAndSlides, in the catch of the Hugging Face attempt
FallbackProvider(google) == IF google THEN "gemini" ELSE "none"

NoDeck == EmptyObject

NoHttpResponse == [status |-> 0, error |-> <<>>, hint |-> FALSE, deck |-> NoDeck]

BadRequest(msg) == [status |-> 400, error |-> msg, hint |-> FALSE, deck |-> NoDeck]

Success(deck) == [status |-> 200, error |-> <<>>, hint |-> FALSE, deck |-> deck]

\* faulty variant: a handler that lets the error escape and answers nothing
ServerErrorEscaping(plat, msg) == NoHttpResponse

\* the catch at the request boundary
ServerError(plat, msg) ==
    IF plat = "express"
    THEN [status |-> 500, error |-> IF msg = <<>> THEN <<"Failed to generate summary">> ELSE msg,
          hint |-> TRUE, deck |-> NoDeck]
    ELSE [status |-> 500, error |-> IF msg = <<>> THEN <<"Internal server error">> ELSE msg,
          hint |-> FALSE, deck |-> NoDeck]

Call(provider, t) ==
    [provider |-> provider,
     prompt |-> IF provider = "hf" THEN HFPrompt(t) ELSE GooglePrompt(t)]

(***************************************************************************)
(* POST /api/transcribe: the upload, the speech recognition request and    *)
(* its retry while the model is loading.                                   *)
(***************************************************************************)
\* the largest number of 503 answers the endpoint gives to one request
MaxAsr503 == 3

\* the seconds to wait when a 503 carries no retry-after header
DefaultRetryAfter == 10

NoHeader == [present |-> FALSE, digits |-> <<>>]

\* a retry-after header: a string of decimal digits
Header(digits) == [present |-> TRUE, digits |-> digits]

RetryAfterHeaders == { NoHeader, Header(<<0>>), Header(<<2>>) }

\* the number a string of digits converts to when it is multiplied
RECURSIVE ToNumber(_)
ToNumber(digits) ==
    IF digits = <<>> THEN 0
    ELSE 10 * ToNumber(SubSeq(digits, 1, Len(digits) - 1)) + digits[Len(digits)]

\* faulty variant: a wait that does not read the header
RetryAfterSecondsIgnoringHeader(h) == DefaultRetryAfter

\* headers.get(retry-after) || 10: null and the empty string are falsy, any
\* other string, 0 included, is kept and converted by the multiplication
RetryAfterSeconds(h) ==
    IF ~h.present \/ h.digits = <<>> THEN DefaultRetryAfter ELSE ToNumber(h.digits)

\* the argument of setTimeout, in milliseconds
RetryDelay(h) == RetryAfterSeconds(h) * 1000

AsrResp(kind, status, retryAfter, errText, envelope, text, chunks) ==
    [kind |-> kind, status |-> status, retryAfter |-> retryAfter, errText |-> errText,
     envelope |-> envelope, text |-> text, chunks |-> chunks]

AsrErrorStatuses == {401, 429, 500}

\* a recognized text: words separated by single spaces
AsrTexts == { <<>>, <<"hello", "world">> }

\* the chunks of a chunked answer: the text of each chunk
AsrChunkLists == { <<>>, << <<"hello">>, <<"world">> >>, << <<"hello">>, <<>> >> }

\* the answers of the speech recognition endpoint: no answer at all, a 503
\* while the model loads, another failure, or a 200 whose body is not JSON,
\* null, a bare string, an object or an array with a text, chunks, or some
\* other JSON value
AsrResponses ==
    { AsrResp("network", 0, NoHeader, <<>>, "none", <<>>, <<>>) }
    \cup { AsrResp("http", 503, h, <<"Model is currently loading">>, "none", <<>>, <<>>) :
             h \in RetryAfterHeaders }
    \cup { AsrResp("http", st, h, e, "none", <<>>, <<>>) :
             st \in AsrErrorStatuses, h \in {NoHeader, Header(<<2>>)}, e \in ErrorTexts }
    \cup { AsrResp("ok", 200, NoHeader, <<>>, e, <<>>, <<>>) : e \in {"notjson", "null", "other"} }
    \cup { AsrResp("ok", 200, NoHeader, <<>>, e, t, <<>>) :
             e \in {"string", "object", "array"}, t \in AsrTexts }
    \cup { AsrResp("ok", 200, NoHeader, <<>>, "chunks", <<>>, c) : c \in AsrChunkLists }

HuggingFaceApiError(errText) == <<"Hugging Face API error:">> \o errText

UnexpectedFormat == <<"Unexpected response format from Hugging Face:">>

\* chunks.map(chunk => chunk.text || chunk).join(' '): a chunk whose text is
\* empty is joined as the chunk object itself
RECURSIVE JoinChunks(_)
JoinChunks(chunks) ==
    IF chunks = <<>> THEN <<>>
    ELSE (IF Head(chunks) = <<>> THEN <<"[object Object]">> ELSE Head(chunks))
         \o JoinChunks(Tail(chunks))

Transcribed(text) == [ok |-> TRUE, text |-> text, msg |-> <<>>]

NotTranscribed(msg) == [ok |-> FALSE, text |-> <<>>, msg |-> msg]

\* faulty variant: a caller that never retries
RetriesOnNothing(r) == FALSE

\* the answer on which transcribeWithHuggingFace waits and calls itself again
RetriesOn(r) == r.kind = "http" /\ r.status = 503

\* transcribeWithHuggingFace on an answer it does not retry on: the text it
\* returns or the error it throws
TranscribeWithHuggingFace(r) ==
    IF r.kind = "network" THEN NotTranscribed(FetchFailed)
    ELSE IF r.kind = "http" THEN NotTranscribed(HuggingFaceApiError(r.errText))
    ELSE IF r.envelope = "notjson" THEN NotTranscribed(SyntaxErrorMessage)
    ELSE IF r.envelope = "null" THEN NotTranscribed(TypeErrorMessage)
    ELSE IF r.envelope = "string" THEN Transcribed(r.text)
    ELSE IF r.envelope \in {"object", "array"} /\ r.text # <<>> THEN Transcribed(r.text)
    ELSE IF r.envelope = "chunks" THEN Transcribed(JoinChunks(r.chunks))
    ELSE NotTranscribed(UnexpectedFormat)

NoTranscribeResponse == [status |-> 0, error |-> <<>>, hint |-> FALSE, transcript |-> <<>>]

TranscribeBadRequest ==
    [status |-> 400, error |-> <<"No audio file provided">>, hint |-> FALSE,
     transcript |-> <<>>]

TranscribeSuccess(text) ==
    [status |-> 200, error |-> <<>>, hint |-> FALSE, transcript |-> text]

\* the catch of the transcribe handler in server.js, the catch of
\* handleAPIRequest in the Cloudflare function
TranscribeError(plat, msg) ==
    IF plat = "express"
    THEN [status |-> 500, error |-> IF msg = <<>> THEN <<"Failed to transcribe audio file">> ELSE msg,
          hint |-> TRUE, transcript |-> <<>>]
    ELSE [status |-> 500, error |-> IF msg = <<>> THEN <<"Internal server error">> ELSE msg,
          hint |-> FALSE, transcript |-> <<>>]

\* the error middleware of server.js
MiddlewareError(msg) ==
    [status |-> 500, error |-> IF msg = <<>> THEN <<"Internal server error">> ELSE msg,
     hint |-> FALSE, transcript |-> <<>>]

\* the answer to a request with a file when HUGGINGFACE_API_KEY is not set
KeyNotConfigured(plat) ==
    IF plat = "express"
    THEN TranscribeError(plat, <<"Hugging Face API key not configured.",
                                 "Please add HUGGINGFACE_API_KEY to your .env file">>)
    ELSE [status |-> 500, error |-> <<"Hugging Face API key not configured">>,
          hint |-> TRUE, transcript |-> <<>>]

\* fs.unlinkSync(filePath) after the transcript was obtained
UnlinkUpload(up) == IF up = "stored" THEN "deleted" ELSE up

\* faulty variant: a catch that leaves the upload where it is
CleanUpOnErrorSkipped(up) == up

\* the catch of the transcribe handler: unlink the upload if it exists
CleanUpOnError(up) == IF up = "stored" THEN "deleted" ELSE up

\* faulty variant: a handler that does not look for the credential
TranscribeGuardWithoutKeyCheck(plat, field, key) ==
    IF field = "absent" THEN "nofile"
    ELSE IF plat = "express" /\ field = "other" THEN "rejected"
    ELSE "call"

\* the transcribe handler before its first await: multer's file filter
\* (server.js only), the test for a file, the test for the credential
TranscribeGuard(plat, field, key) ==
    IF plat = "express" /\ field = "other" THEN "rejected"
    ELSE IF field = "absent" THEN "nofile"
    ELSE IF ~key THEN "nokey"
    ELSE "call"

\* the request to the endpoint: the bearer token and the uploaded bytes
AsrRequest(field) == [authorized |-> TRUE, body |-> field]

AudioFields == {"absent", "audio", "other"}

TranscribeAtRest ==
    /\ tpc = "idle"
    /\ audioField = "unset"
    /\ upload = "none"
    /\ asrCalls = <<>>
    /\ asrSeen = <<>>
    /\ waits = <<>>
    /\ tResponse = NoTranscribeResponse

(***************************************************************************)
(* Several /api/summarize requests served at once.  Each request is an     *)
(* invocation of the handler with its own transcript, its own calls and    *)
(* its own response; the credentials and the Gemini client are the only    *)
(* state the invocations share, and no invocation writes them.             *)
(***************************************************************************)
\* the number of requests the server holds at once
MaxRequests == 2

RequestIds == 1..MaxRequests

IdleRequest ==
    [pc |-> "idle", transcript |-> NoTranscript, calls |-> <<>>, seen |-> <<>>,
     response |-> NoHttpResponse]

ConcurrentAtRest == reqs = [i \in RequestIds |-> IdleRequest]

(***************************************************************************)
(* The page script (script.js): generation from the page, the stored deck, *)
(* the edit form and the export.  A text is a sequence of characters; a    *)
(* message of the page is a sequence of one word.                          *)
(***************************************************************************)
\* the largest number of slides in a deck the server returns to the page
MaxClientSlides == 2

\* the largest number of points of a slide
MaxPoints == 2

\* the largest number of pending timers that hide the notice of a save
MaxTimers == 1

\* the titles and points that arrive and that the user types; some need
\* escaping, one reads like an escaped character
TitleTexts == { <<"a">>, <<"<", "&", ">">> }

PointTexts == { <<>>, <<"&", "l", "t", ";">> }

SummaryText == <<"s">>

Point(text) == [hole |-> FALSE, text |-> text]

\* an index of a points array that holds no element
Hole == [hole |-> TRUE, text |-> <<>>]

Slide(title, points) == [title |-> title, hasPoints |-> TRUE, points |-> points]

\* a slide object without the member points
SlideWithoutPoints(title) == [title |-> title, hasPoints |-> FALSE, points |-> <<>>]

\* the slides of the decks the server returns: the odd ones have two points
\* to escape, the even ones have a title to escape and no point
ServerSlide(i) ==
    IF i % 2 = 1 THEN Slide(<<"a">>, <<Point(<<"&", "l", "t", ";">>), Point(<<>>)>>)
    ELSE Slide(<<"<", "&", ">">>, <<>>)

\* the arrays slides the server returns; it validates that slides is an
\* array only, so a slide may come without points
ServerSlideLists ==
    { [i \in 1..n |-> ServerSlide(i)] : n \in 0..MaxClientSlides }
    \cup { <<SlideWithoutPoints(<<"a">>)>> }

Data(summary, hasSlides, slides) ==
    [summary |-> summary, hasSlides |-> hasSlides, slides |-> slides]

\* the JSON bodies of a 200 of /api/summarize
ServerData ==
    { Data(<<>>, FALSE, <<>>) }
    \cup { Data(SummaryText, TRUE, l) : l \in ServerSlideLists }

Reply(kind, status, body, error, data) ==
    [kind |-> kind, status |-> status, body |-> body, error |-> error, data |-> data]

NoData == Data(<<>>, FALSE, <<>>)

\* what fetch(/api/summarize) settles with: a rejection, a status that is
\* not 2xx with or without a JSON error body, a 200 with or without JSON
SummarizeReplies ==
    { Reply("network", 0, "none", <<>>, NoData) }
    \cup { Reply("http", st, "json", e, NoData) :
             st \in {400, 500}, e \in { <<>>, <<"AI generation failed">> } }
    \cup { Reply("http", 502, "notjson", <<>>, NoData) }
    \cup { Reply("ok", 200, "notjson", <<>>, NoData) }
    \cup { Reply("ok", 200, "json", <<>>, d) : d \in ServerData }

\* faulty variant: a page that does not test response.ok
ReplyOkAlways(reply) == reply.kind # "network"

\* response.ok
ReplyOk(reply) == reply.kind = "ok"

Hidden(text) == [hidden |-> TRUE, text |-> text]

Shown(text) == [hidden |-> FALSE, text |-> text]

\* the message of the error that ends processTranscript without a deck
FailureMessage(reply) ==
    IF reply.kind = "network" THEN <<"Failed to fetch">>
    ELSE IF reply.body = "notjson" THEN SyntaxErrorMessage
    ELSE IF reply.error = <<>> THEN <<"Failed to generate summary">>
    ELSE reply.error

SlidesUndefined == [defined |-> FALSE, items |-> <<>>]

SlidesStored(items) == [defined |-> TRUE, items |-> items]

SummaryUndefined == [defined |-> FALSE, text |-> <<>>]

SummaryStored(text) == [defined |-> TRUE, text |-> text]

EmptyContent == [kind |-> "empty", slides |-> <<>>, more |-> 0]

NoSlidesGenerated == [kind |-> "none", slides |-> <<>>, more |-> 0]

\* displayResults: the preview of the first three slides, one bullet for
\* each element of points
Preview(slides) ==
    [kind |-> "preview",
     slides |-> SubSeq(slides, 1, IF Len(slides) < 3 THEN Len(slides) ELSE 3),
     more |-> IF Len(slides) > 3 THEN Len(slides) - 3 ELSE 0]

\* displayResults stops at slide.points.map when one of the first three
\* slides has no points
PreviewThrows(data) ==
    /\ data.hasSlides
    /\ \E i \in 1..Len(data.slides) : i <= 3 /\ ~data.slides[i].hasPoints

NoArtifact == [kind |-> "none", slides |-> <<>>]

ClientAtRest ==
    /\ cpc = "idle"
    /\ loading = FALSE
    /\ errorMessage = Hidden(<<>>)
    /\ slidesData = SlidesUndefined
    /\ summaryData = SummaryUndefined
    /\ summaryContent = <<>>
    /\ slidesContent = EmptyContent
    /\ resultsHidden = TRUE
    /\ editOpen = FALSE
    /\ editForm = <<>>
    /\ artifact = NoArtifact
    /\ submitAudioDisabled = TRUE
    /\ hideTimers = 0
    /\ apc = "idle"
    /\ audioInputFile = "none"
    /\ fileInfoShown = FALSE
    /\ currentSlideIndex = 0
    /\ viewerOpen = FALSE
    /\ nextSlideDisabled = FALSE

\* the process environment is read once; the Gemini client exists exactly
\* when its key is set
Init ==
    /\ platform \in {"express", "cloudflare"}
    /\ hfKey \in BOOLEAN
    /\ geminiKey \in BOOLEAN
    /\ genAI = geminiKey
    /\ pc = "idle"
    /\ transcript = NoTranscript
    /\ calls = <<>>
    /\ inflight = {}
    /\ lastResp = NoResponse
    /\ hfError = NoError
    /\ geminiError = NoError
    /\ response = NoHttpResponse
    /\ TranscribeAtRest
    /\ ConcurrentAtRest
    /\ ClientAtRest

\* POST /api/summarize up to its first suspension: validation, then the
\* dispatcher up to the first provider call
Summarize(t) ==
    /\ pc \in {"idle", "done"}
    /\ transcript' = t
    /\ lastResp' = NoResponse
    /\ hfError' = NoError
    /\ geminiError' = NoError
    /\ IF Validate(t) = "required"
       THEN /\ response' = BadRequest(<<"Transcript is required">>)
            /\ pc' = "done" /\ calls' = <<>> /\ inflight' = {}
       ELSE IF Validate(t) = "short"
       THEN /\ response' = BadRequest(<<"Transcript is too short. Please provide at least 50 characters.">>)
            /\ pc' = "done" /\ calls' = <<>> /\ inflight' = {}
       ELSE LET first == FirstProvider(hfKey, GoogleAvailable(platform, genAI, geminiKey))
            IN  IF first = "none"
                THEN /\ response' = ServerError(platform, NoAIConfigured(platform))
                     /\ pc' = "done" /\ calls' = <<>> /\ inflight' = {}
                ELSE /\ response' = NoHttpResponse
                     /\ pc' = first
                     /\ calls' = <<Call(first, t)>>
                     /\ inflight' = {first}
    /\ UNCHANGED <<platform, hfKey, geminiKey, genAI>>

\* POST /api/summarize with a body that is not a JSON object: express.json()
\* hands its error to the error middleware, request.json() throws into the
\* catch of handleAPIRequest; the handler never reads a transcript
SummarizeMalformedBody ==
    /\ pc \in {"idle", "done"}
    /\ transcript' = NoTranscript
    /\ lastResp' = NoResponse
    /\ hfError' = NoError
    /\ geminiError' = NoError
    /\ response' = [status |-> 500, error |-> SyntaxErrorMessage, hint |-> FALSE,
                    deck |-> NoDeck]
    /\ pc' = "done" /\ calls' = <<>> /\ inflight' = {}
    /\ UNCHANGED <<platform, hfKey, geminiKey, genAI>>

\* generateSummaryAndSlides once generateWithHuggingFace has returned or
\* thrown: return the deck, fall back to Gemini, or rethrow
DispatcherAfterHuggingFace(r, res) ==
    /\ pc = "hf"
    /\ LET next == FallbackProvider(GoogleAvailable(platform, genAI, geminiKey))
       IN  IF res.ok
           THEN /\ response' = Success(res.deck)
                /\ pc' = "done" /\ lastResp' = r
                /\ inflight' = inflight \ {"hf"}
                /\ UNCHANGED <<calls, hfError>>
           ELSE IF next = "gemini"
           THEN /\ hfError' = res.err
                /\ pc' = "gemini" /\ lastResp' = NoResponse
                /\ calls' = Append(calls, Call("gemini", transcript))
                /\ inflight' = (inflight \ {"hf"}) \cup {"gemini"}
                /\ UNCHANGED response
           ELSE /\ hfError' = res.err
                /\ response' = ServerError(platform, res.err.msg)
                /\ pc' = "done" /\ lastResp' = r
                /\ inflight' = inflight \ {"hf"}
                /\ UNCHANGED calls
    /\ UNCHANGED <<platform, hfKey, geminiKey, genAI, transcript, geminiError>>

\* faulty variant: a 503 of Hugging Face is answered by calling Hugging Face again
HuggingFaceSettlesRetryingOn503(r) ==
    IF r.status = 503
    THEN /\ pc = "hf"
         /\ calls' = Append(calls, Call("hf", transcript))
         /\ UNCHANGED <<platform, hfKey, geminiKey, genAI, pc, transcript, inflight,
                        lastResp, hfError, geminiError, response>>
    ELSE DispatcherAfterHuggingFace(r, GenerateWithHuggingFace(platform, r))

\* the Hugging Face call settles: the rest of generateWithHuggingFace runs
\* and hands its outcome to the dispatcher
HuggingFaceSettles(r) ==
    DispatcherAfterHuggingFace(r, GenerateWithHuggingFace(platform, r))

\* faulty variant: a fallback that fails rethrows the error of Hugging Face
GeminiSettlesSurfacingPrimary(r) ==
    /\ pc = "gemini"
    /\ LET res == GenerateWithGoogle(platform, r)
       IN  /\ response' = IF res.ok THEN Success(res.deck)
                          ELSE IF hfError # NoError THEN ServerError(platform, hfError.msg)
                          ELSE ServerError(platform, res.err.msg)
           /\ geminiError' = res.err
           /\ pc' = "done" /\ lastResp' = r
           /\ inflight' = inflight \ {"gemini"}
    /\ UNCHANGED <<platform, hfKey, geminiKey, genAI, transcript, calls, hfError>>

\* the Gemini call settles: the rest of generateWithGoogle; its deck or its
\* error is the outcome of the request
GeminiSettles(r) ==
    /\ pc = "gemini"
    /\ LET res == GenerateWithGoogle(platform, r)
       IN  /\ response' = IF res.ok THEN Success(res.deck)
                          ELSE ServerError(platform, res.err.msg)
           /\ geminiError' = res.err
           /\ pc' = "done" /\ lastResp' = r
           /\ inflight' = inflight \ {"gemini"}
    /\ UNCHANGED <<platform, hfKey, geminiKey, genAI, transcript, calls, hfError>>

Next ==
    \/ \E t \in Transcripts : Summarize(t) /\ UNCHANGED <<transcribeVars, concurrentVars, clientVars, pageVars>>
    \/ SummarizeMalformedBody /\ UNCHANGED <<transcribeVars, concurrentVars, clientVars, pageVars>>
    \/ \E r \in HFResponses : HuggingFaceSettles(r) /\ UNCHANGED <<transcribeVars, concurrentVars, clientVars, pageVars>>
    \/ \E r \in GeminiResponses(platform) : GeminiSettles(r) /\ UNCHANGED <<transcribeVars, concurrentVars, clientVars, pageVars>>

Spec == Init /\ [][Next]_vars

(***************************************************************************)
(* The operations of /api/transcribe.                                      *)
(***************************************************************************)
\* POST /api/transcribe with a multipart form, up to its first suspension:
\* the upload is stored (server.js) or read into memory (Cloudflare), and
\* the first request to the endpoint is sent
Transcribe(f) ==
    /\ tpc \in {"idle", "done"}
    /\ audioField' = f
    /\ asrSeen' = <<>>
    /\ waits' = <<>>
    /\ LET g == TranscribeGuard(platform, f, hfKey)
       IN  IF g = "nofile"
           THEN /\ tResponse' = TranscribeBadRequest
                /\ upload' = "none" /\ tpc' = "done" /\ asrCalls' = <<>>
           ELSE IF g = "rejected"
           THEN /\ tResponse' = MiddlewareError(<<"Only audio files are allowed">>)
                /\ upload' = "none" /\ tpc' = "done" /\ asrCalls' = <<>>
           ELSE IF g = "nokey"
           THEN /\ tResponse' = KeyNotConfigured(platform)
                /\ upload' = IF platform = "express" THEN CleanUpOnError("stored") ELSE "none"
                /\ tpc' = "done" /\ asrCalls' = <<>>
           ELSE /\ tResponse' = NoTranscribeResponse
                /\ upload' = IF platform = "express" THEN "stored" ELSE "memory"
                /\ tpc' = "asr" /\ asrCalls' = <<AsrRequest(f)>>
    /\ UNCHANGED summarizeVars

\* POST /api/transcribe with a body that is not a multipart form: multer
\* passes it on without a file, request.formData() throws into the catch of
\* handleAPIRequest
TranscribeMalformedBody ==
    /\ tpc \in {"idle", "done"}
    /\ audioField' = "malformed"
    /\ asrSeen' = <<>>
    /\ waits' = <<>>
    /\ tResponse' = IF platform = "express" THEN TranscribeBadRequest
                    ELSE TranscribeError(platform, <<"Unrecognized Content-Type header value">>)
    /\ upload' = "none" /\ tpc' = "done" /\ asrCalls' = <<>>
    /\ UNCHANGED summarizeVars

\* the endpoint answers: on a 503 the timer is set, on anything else
\* transcribeWithHuggingFace returns or throws, and the handler removes the
\* upload and answers
AsrSettles(r) ==
    /\ tpc = "asr"
    /\ r.status = 503 =>
           Cardinality({ i \in 1..Len(asrSeen) : asrSeen[i].status = 503 }) < MaxAsr503
    /\ asrSeen' = Append(asrSeen, r)
    /\ IF RetriesOn(r)
       THEN /\ waits' = Append(waits, RetryDelay(r.retryAfter))
            /\ tpc' = "sleep"
            /\ UNCHANGED <<upload, tResponse>>
       ELSE LET res == TranscribeWithHuggingFace(r)
            IN  /\ IF res.ok
                   THEN /\ upload' = UnlinkUpload(upload)
                        /\ tResponse' = TranscribeSuccess(res.text)
                   ELSE /\ upload' = CleanUpOnError(upload)
                        /\ tResponse' = TranscribeError(platform, res.msg)
                /\ tpc' = "done"
                /\ UNCHANGED waits
    /\ UNCHANGED <<audioField, asrCalls, summarizeVars>>

\* faulty variant: a retry that gives up after the second request
RetryTimerFiresWithAttemptLimit ==
    /\ tpc = "sleep"
    /\ IF Len(asrCalls) >= 2
       THEN /\ tResponse' = TranscribeError(platform, HuggingFaceApiError(<<"Model is currently loading">>))
            /\ upload' = CleanUpOnError(upload)
            /\ tpc' = "done"
            /\ UNCHANGED asrCalls
       ELSE /\ asrCalls' = Append(asrCalls, AsrRequest(audioField))
            /\ tpc' = "asr"
            /\ UNCHANGED <<upload, tResponse>>
    /\ UNCHANGED <<audioField, asrSeen, waits, summarizeVars>>

\* the timer set on a 503 fires: transcribeWithHuggingFace calls itself
\* with the same arguments and sends the request again
RetryTimerFires ==
    /\ tpc = "sleep"
    /\ asrCalls' = Append(asrCalls, AsrRequest(audioField))
    /\ tpc' = "asr"
    /\ UNCHANGED <<audioField, upload, asrSeen, waits, tResponse, summarizeVars>>

TranscribeNext ==
    \/ \E f \in AudioFields : Transcribe(f) /\ UNCHANGED <<concurrentVars, clientVars, pageVars>>
    \/ TranscribeMalformedBody /\ UNCHANGED <<concurrentVars, clientVars, pageVars>>
    \/ \E r \in AsrResponses : AsrSettles(r) /\ UNCHANGED <<concurrentVars, clientVars, pageVars>>
    \/ RetryTimerFires /\ UNCHANGED <<concurrentVars, clientVars, pageVars>>

TranscribeSpec == Init /\ [][TranscribeNext]_vars

(***************************************************************************)
(* The operations of the requests served at once.                          *)
(***************************************************************************)
\* the transcripts of the concurrent requests: too short, and two valid ones
ConcurrentTranscripts ==
    { Str(MinTranscriptLength - 1, MinTranscriptLength - 1),
      Str(MinTranscriptLength, MinTranscriptLength),
      Str(MinTranscriptLength + 10, MinTranscriptLength + 10) }

\* a document every provider attempt accepts
GoodText == <<"{", "sum", "slides:[", "]", "}">>

\* the provider answers of the concurrent requests: a failure and a deck
ConcurrentHFResponses ==
    { r \in HFResponses : r.kind = "network" \/ (r.envelope = "array" /\ r.text = GoodText) }

ConcurrentGeminiResponses(plat) ==
    { r \in GeminiResponses(plat) :
        (r.kind = "http" /\ r.status = 500 /\ r.errText = <<"Model is currently loading">>)
        \/ (r.envelope = "text" /\ r.text = GoodText) }

\* faulty variant: the transcript kept in a variable all invocations share,
\* which holds that of the latest request
RequestTranscriptShared(rs, i) ==
    rs[Max({ j \in RequestIds : rs[j].pc # "idle" })].transcript

\* the parameter transcript of generateSummaryAndSlides: local to the
\* invocation
RequestTranscript(rs, i) == rs[i].transcript

\* request i arrives: validation, then the dispatcher up to the first call
ConcurrentSummarize(i, t) ==
    /\ reqs[i].pc = "idle"
    /\ LET first == FirstProvider(hfKey, GoogleAvailable(platform, genAI, geminiKey))
           arrived == [reqs EXCEPT ![i].transcript = t, ![i].pc = "arrived"]
           answered(resp) ==
               [reqs EXCEPT ![i] = [pc |-> "done", transcript |-> t, calls |-> <<>>,
                                    seen |-> <<>>, response |-> resp]]
       IN  IF Validate(t) = "required"
           THEN reqs' = answered(BadRequest(<<"Transcript is required">>))
           ELSE IF Validate(t) = "short"
           THEN reqs' = answered(BadRequest(<<"Transcript is too short. Please provide at least 50 characters.">>))
           ELSE IF first = "none"
           THEN reqs' = answered(ServerError(platform, NoAIConfigured(platform)))
           ELSE reqs' = [reqs EXCEPT ![i] =
                            [pc |-> first, transcript |-> t,
                             calls |-> <<Call(first, RequestTranscript(arrived, i))>>,
                             seen |-> <<>>, response |-> NoHttpResponse]]
    /\ UNCHANGED <<summarizeVars, transcribeVars, clientVars, pageVars>>

\* the Hugging Face call of request i settles
ConcurrentHuggingFaceSettles(i, r) ==
    /\ reqs[i].pc = "hf"
    /\ LET res == GenerateWithHuggingFace(platform, r)
           next == FallbackProvider(GoogleAvailable(platform, genAI, geminiKey))
           seen == Append(reqs[i].seen, r)
       IN  IF res.ok
           THEN reqs' = [reqs EXCEPT ![i].pc = "done", ![i].seen = seen,
                                     ![i].response = Success(res.deck)]
           ELSE IF next = "gemini"
           THEN reqs' = [reqs EXCEPT ![i].pc = "gemini", ![i].seen = seen,
                                     ![i].calls = Append(@, Call("gemini", RequestTranscript(reqs, i)))]
           ELSE reqs' = [reqs EXCEPT ![i].pc = "done", ![i].seen = seen,
                                     ![i].response = ServerError(platform, res.err.msg)]
    /\ UNCHANGED <<summarizeVars, transcribeVars, clientVars, pageVars>>

\* the Gemini call of request i settles
ConcurrentGeminiSettles(i, r) ==
    /\ reqs[i].pc = "gemini"
    /\ LET res == GenerateWithGoogle(platform, r)
       IN  reqs' = [reqs EXCEPT ![i].pc = "done", ![i].seen = Append(@, r),
                                ![i].response = IF res.ok THEN Success(res.deck)
                                                ELSE ServerError(platform, res.err.msg)]
    /\ UNCHANGED <<summarizeVars, transcribeVars, clientVars, pageVars>>

ConcurrentNext ==
    \/ \E i \in RequestIds, t \in ConcurrentTranscripts : ConcurrentSummarize(i, t)
    \/ \E i \in RequestIds, r \in ConcurrentHFResponses : ConcurrentHuggingFaceSettles(i, r)
    \/ \E i \in RequestIds, r \in ConcurrentGeminiResponses(platform) :
           ConcurrentGeminiSettles(i, r)

ConcurrentSpec == Init /\ [][ConcurrentNext]_vars

(***************************************************************************)
(* The two servers side by side: request 1 is served by server.js,         *)
(* request 2 by functions/[[path]].js, with the same credentials; both     *)
(* receive the same transcript and each provider gives both the same       *)
(* answer.                                                                 *)
(***************************************************************************)
PlatformOf(i) == IF i = 1 THEN "express" ELSE "cloudflare"

\* the handler of the platform up to its first provider call
PairArrive(plat, t) ==
    LET first == FirstProvider(hfKey, GoogleAvailable(plat, genAI, geminiKey))
        answered(resp) ==
            [pc |-> "done", transcript |-> t, calls |-> <<>>, seen |-> <<>>,
             response |-> resp]
    IN  IF Validate(t) = "required"
        THEN answered(BadRequest(<<"Transcript is required">>))
        ELSE IF Validate(t) = "short"
        THEN answered(BadRequest(<<"Transcript is too short. Please provide at least 50 characters.">>))
        ELSE IF first = "none"
        THEN answered(ServerError(plat, NoAIConfigured(plat)))
        ELSE [pc |-> first, transcript |-> t, calls |-> <<Call(first, t)>>,
              seen |-> <<>>, response |-> NoHttpResponse]

\* the dispatcher of the platform once its Hugging Face call has settled
PairAfterHuggingFace(plat, q, r) ==
    LET res == GenerateWithHuggingFace(plat, r)
        next == FallbackProvider(GoogleAvailable(plat, genAI, geminiKey))
    IN  IF res.ok
        THEN [q EXCEPT !.pc = "done", !.response = Success(res.deck)]
        ELSE IF next = "gemini"
        THEN [q EXCEPT !.pc = "gemini",
                       !.calls = Append(@, Call("gemini", q.transcript))]
        ELSE [q EXCEPT !.pc = "done", !.response = ServerError(plat, res.err.msg)]

\* an answer of Gemini as the platform receives it: the SDK of server.js
\* reports an answer without candidates when its text is read
PairGeminiView(plat, g) ==
    IF plat = "express" /\ g.envelope = "nocandidates"
    THEN Resp("ok", 200, <<>>, "blocked", <<>>)
    ELSE g

\* the handler of the platform once its Gemini call has settled
PairAfterGemini(plat, q, g) ==
    LET res == GenerateWithGoogle(plat, PairGeminiView(plat, g))
    IN  [q EXCEPT !.pc = "done",
                  !.response = IF res.ok THEN Success(res.deck)
                               ELSE ServerError(plat, res.err.msg)]

\* the answers of Gemini both platforms can receive
PairGeminiAnswers == { g \in CloudflareGeminiResponses : g.envelope # "notjson" }

\* the same request arrives at both servers
PairSummarize(t) ==
    /\ \A i \in {1, 2} : reqs[i].pc \in {"idle", "done"}
    /\ reqs' = [i \in RequestIds |->
                  IF i \in {1, 2} THEN PairArrive(PlatformOf(i), t) ELSE reqs[i]]
    /\ UNCHANGED <<summarizeVars, transcribeVars, clientVars, pageVars>>

\* Hugging Face gives its answer to every server that waits for it
PairHuggingFaceSettles(r) ==
    /\ \E i \in {1, 2} : reqs[i].pc = "hf"
    /\ reqs' = [i \in RequestIds |->
                  IF i \in {1, 2} /\ reqs[i].pc = "hf"
                  THEN PairAfterHuggingFace(PlatformOf(i), reqs[i], r) ELSE reqs[i]]
    /\ UNCHANGED <<summarizeVars, transcribeVars, clientVars, pageVars>>

\* Gemini gives its answer to every server that waits for it
PairGeminiSettles(g) ==
    /\ \E i \in {1, 2} : reqs[i].pc = "gemini"
    /\ reqs' = [i \in RequestIds |->
                  IF i \in {1, 2} /\ reqs[i].pc = "gemini"
                  THEN PairAfterGemini(PlatformOf(i), reqs[i], g) ELSE reqs[i]]
    /\ UNCHANGED <<summarizeVars, transcribeVars, clientVars, pageVars>>

PairNext ==
    \/ \E t \in Transcripts : PairSummarize(t)
    \/ \E r \in HFResponses : PairHuggingFaceSettles(r)
    \/ \E g \in PairGeminiAnswers : PairGeminiSettles(g)

\* both servers idle; the platform of the single-request handler plays no part
PairInit == Init /\ platform = "express"

PairSpec == PairInit /\ [][PairNext]_vars

(***************************************************************************)
(* The operations of the page.                                             *)
(***************************************************************************)
\* setLoading: every button of class submit-btn is disabled or enabled; the
\* labels it restores name the two of them, Generate Summary & Slides and
\* Transcribe & Generate
SetLoading(b) == loading' = b /\ submitAudioDisabled' = b

\* showError
ShowError(text) == errorMessage' = Shown(text)

\* hideError: the element keeps its text
HideError == errorMessage' = Hidden(errorMessage.text)

\* displayResults(data): the summary, the preview, the stored deck, the
\* results section; a slide without points ends it after the summary
DisplayResults(data) ==
    /\ summaryContent' = IF data.summary = <<>> THEN <<"No summary generated">>
                         ELSE data.summary
    /\ IF PreviewThrows(data)
       THEN UNCHANGED <<slidesContent, slidesData, summaryData, resultsHidden>>
       ELSE /\ slidesContent' = IF data.hasSlides /\ data.slides # <<>>
                                THEN Preview(data.slides) ELSE NoSlidesGenerated
            /\ slidesData' = SlidesStored(IF data.hasSlides THEN data.slides ELSE <<>>)
            /\ summaryData' = SummaryStored(data.summary)
            /\ resultsHidden' = FALSE

\* a click on Generate: an empty transcript is refused; otherwise
\* processTranscript runs up to its fetch
SubmitTranscript(entered) ==
    /\ cpc = "idle"
    /\ ~loading
    /\ IF entered
       THEN /\ SetLoading(TRUE)
            /\ HideError
            /\ cpc' = "fetching"
       ELSE /\ ShowError(<<"Please enter a transcript">>)
            /\ UNCHANGED <<loading, submitAudioDisabled, cpc>>
    /\ artifact' = NoArtifact
    /\ UNCHANGED hideTimers
    /\ UNCHANGED <<slidesData, summaryData, summaryContent, slidesContent, resultsHidden,
                   editOpen, editForm>>

\* processTranscript once its fetch has settled: the deck is displayed, or
\* the error is shown; the loading state ends either way
ProcessTranscriptSettles(reply) ==
    /\ IF ReplyOk(reply) /\ reply.body = "json"
       THEN /\ DisplayResults(reply.data)
            /\ IF PreviewThrows(reply.data)
               THEN ShowError(TypeErrorMessage)
               ELSE UNCHANGED errorMessage
       ELSE /\ ShowError(FailureMessage(reply))
            /\ UNCHANGED <<slidesData, summaryData, summaryContent, slidesContent,
                           resultsHidden>>
    /\ SetLoading(FALSE)
    /\ artifact' = NoArtifact
    /\ UNCHANGED <<editOpen, editForm, hideTimers>>

\* the fetch of the processTranscript the Generate button started settles
SummarizeReplied(reply) ==
    /\ cpc = "fetching"
    /\ ProcessTranscriptSettles(reply)
    /\ cpc' = "idle"

\* the inputs renderEditSlides writes: one title input for each slide, one
\* point input for each element of its points
FormOf(items) ==
    [i \in 1..Len(items) |->
        { p \in 1..Len(items[i].points) : ~items[i].points[p].hole }]

\* renderEditSlides stops at slide.points.map when a slide has no points
RenderThrows(items) == \E i \in 1..Len(items) : ~items[i].hasPoints

\* renderEditSlides
RenderEditSlides(sd) ==
    IF ~sd.defined \/ sd.items = <<>> THEN editForm' = <<>>
    ELSE IF RenderThrows(sd.items) THEN UNCHANGED editForm
    ELSE editForm' = FormOf(sd.items)

\* a click on Edit Slides
OpenEditor ==
    /\ ~editOpen
    /\ IF ~slidesData.defined \/ slidesData.items = <<>>
       THEN /\ ShowError(<<"No slides available to edit">>)
            /\ UNCHANGED <<editOpen, editForm>>
       ELSE /\ RenderEditSlides(slidesData)
            /\ editOpen' = ~RenderThrows(slidesData.items)
            /\ UNCHANGED errorMessage
    /\ artifact' = NoArtifact
    /\ UNCHANGED <<submitAudioDisabled, hideTimers>>
    /\ UNCHANGED <<cpc, loading, slidesData, summaryData, summaryContent, slidesContent,
                   resultsHidden>>

\* a click on the close or the cancel button of the edit modal
CloseEditor ==
    /\ editOpen
    /\ editOpen' = FALSE
    /\ artifact' = NoArtifact
    /\ UNCHANGED <<submitAudioDisabled, hideTimers>>
    /\ UNCHANGED <<cpc, loading, errorMessage, slidesData, summaryData, summaryContent,
                   slidesContent, resultsHidden, editForm>>

\* the input event of the title input of slide s: the handler throws when
\* the deck has no slide s any more
TitleInput(s, v) ==
    /\ editOpen
    /\ s \in 1..Len(editForm)
    /\ slidesData' = IF s <= Len(slidesData.items)
                     THEN [slidesData EXCEPT !.items[s].title = v]
                     ELSE slidesData
    /\ artifact' = NoArtifact
    /\ UNCHANGED <<submitAudioDisabled, hideTimers>>
    /\ UNCHANGED <<cpc, loading, errorMessage, summaryData, summaryContent, slidesContent,
                   resultsHidden, editOpen, editForm>>

\* points[p] = v: past the end of the array the indices between are left
\* without an element
AssignPoint(points, p, v) ==
    IF p <= Len(points) THEN [points EXCEPT ![p] = Point(v)]
    ELSE points \o [k \in 1..(p - Len(points) - 1) |-> Hole] \o <<Point(v)>>

\* the input event of the input of point p of slide s
PointInput(s, p, v) ==
    /\ editOpen
    /\ s \in 1..Len(editForm)
    /\ p \in editForm[s]
    /\ slidesData' = IF s <= Len(slidesData.items) /\ slidesData.items[s].hasPoints
                     THEN [slidesData EXCEPT !.items[s].points = AssignPoint(@, p, v)]
                     ELSE slidesData
    /\ artifact' = NoArtifact
    /\ UNCHANGED <<submitAudioDisabled, hideTimers>>
    /\ UNCHANGED <<cpc, loading, errorMessage, summaryData, summaryContent, slidesContent,
                   resultsHidden, editOpen, editForm>>

\* addPoint(s): a points array is created if the slide has none, an empty
\* point is pushed, the form is rendered again
AddPoint(s) ==
    /\ editOpen
    /\ s \in 1..Len(editForm)
    /\ s <= Len(slidesData.items) => Len(slidesData.items[s].points) < MaxPoints
    /\ IF s <= Len(slidesData.items)
       THEN LET after == [slidesData EXCEPT !.items[s].hasPoints = TRUE,
                                            !.items[s].points = Append(@, Point(<<>>))]
            IN  /\ slidesData' = after
                /\ RenderEditSlides(after)
       ELSE UNCHANGED <<slidesData, editForm>>
    /\ artifact' = NoArtifact
    /\ UNCHANGED <<submitAudioDisabled, hideTimers>>
    /\ UNCHANGED <<cpc, loading, errorMessage, summaryData, summaryContent, slidesContent,
                   resultsHidden, editOpen>>

\* faulty variant: splice(p) without a count, which removes all that follows too
SpliceWithoutCount(points, p) ==
    IF p <= Len(points) THEN SubSeq(points, 1, p - 1) ELSE points

\* Array.prototype.splice(p, 1)
Splice(points, p) ==
    IF p <= Len(points)
    THEN SubSeq(points, 1, p - 1) \o SubSeq(points, p + 1, Len(points))
    ELSE points

\* removePoint(s, p): the element is spliced out, the form is rendered again
RemovePoint(s, p) ==
    /\ editOpen
    /\ s \in 1..Len(editForm)
    /\ p \in editForm[s]
    /\ IF s <= Len(slidesData.items) /\ slidesData.items[s].hasPoints
       THEN LET after == [slidesData EXCEPT !.items[s].points = Splice(@, p)]
            IN  /\ slidesData' = after
                /\ RenderEditSlides(after)
       ELSE UNCHANGED <<slidesData, editForm>>
    /\ artifact' = NoArtifact
    /\ UNCHANGED <<submitAudioDisabled, hideTimers>>
    /\ UNCHANGED <<cpc, loading, errorMessage, summaryData, summaryContent, slidesContent,
                   resultsHidden, editOpen>>

\* a click on Save Changes: saveEditedSlides displays the stored deck again;
\* when that throws the handler ends there, otherwise the modal is closed,
\* the notice is shown and a timer is set that will hide it
SaveEdits ==
    /\ editOpen
    /\ hideTimers < MaxTimers
    /\ LET data == Data(summaryData.text, slidesData.defined, slidesData.items)
       IN  /\ DisplayResults(data)
           /\ IF PreviewThrows(data)
              THEN UNCHANGED <<editOpen, errorMessage, hideTimers>>
              ELSE /\ editOpen' = FALSE
                   /\ ShowError(<<"Slides updated successfully!">>)
                   /\ hideTimers' = hideTimers + 1
    /\ artifact' = NoArtifact
    /\ UNCHANGED <<cpc, loading, submitAudioDisabled, editForm>>

\* a timer set by Save Changes fires: hideError
HideTimerFires ==
    /\ hideTimers > 0
    /\ hideTimers' = hideTimers - 1
    /\ HideError
    /\ artifact' = NoArtifact
    /\ UNCHANGED <<cpc, loading, submitAudioDisabled, slidesData, summaryData, summaryContent,
                   slidesContent, resultsHidden, editOpen, editForm>>

\* faulty variant: an export that writes the text as it is
EscapeHtmlNothing(text) == text

\* escapeHtml: the innerHTML of an element whose textContent is the text
RECURSIVE EscapeHtml(_)
EscapeHtml(text) ==
    IF text = <<>> THEN <<>>
    ELSE (CASE Head(text) = "&" -> <<"&", "a", "m", "p", ";">>
            [] Head(text) = "<" -> <<"&", "l", "t", ";">>
            [] Head(text) = ">" -> <<"&", "g", "t", ";">>
            [] OTHER -> <<Head(text)>>)
         \o EscapeHtml(Tail(text))

\* points.map(p => li).join(): one li for each element of points; an index
\* without an element gives none
RECURSIVE ListItems(_)
ListItems(points) ==
    IF points = <<>> THEN <<>>
    ELSE (IF Head(points).hole THEN <<>> ELSE <<EscapeHtml(Head(points).text)>>)
         \o ListItems(Tail(points))

\* slidesData.map(slide => div with h2 and ul).join()
SlidesHTML(items) ==
    [i \in 1..Len(items) |->
        [h2 |-> EscapeHtml(items[i].title), li |-> ListItems(items[i].points)]]

\* exportToHTML (kind html: a download) and exportToPDF (kind pdf: a
\* window that is printed): an error without slides, nothing when a slide
\* has no points, the document otherwise
Export(kind) ==
    /\ IF ~slidesData.defined \/ slidesData.items = <<>>
       THEN /\ ShowError(<<"No slides available to export">>)
            /\ artifact' = NoArtifact
       ELSE /\ artifact' = IF RenderThrows(slidesData.items) THEN NoArtifact
                           ELSE [kind |-> kind, slides |-> SlidesHTML(slidesData.items)]
            /\ UNCHANGED errorMessage
    /\ UNCHANGED <<submitAudioDisabled, hideTimers>>
    /\ UNCHANGED <<cpc, loading, slidesData, summaryData, summaryContent, slidesContent,
                   resultsHidden, editOpen, editForm>>

ExportToHTML == Export("html")

ExportToPDF == Export("pdf")

ClientNext ==
    \/ \E entered \in BOOLEAN : SubmitTranscript(entered) /\ UNCHANGED <<serverVars, pageVars>>
    \/ \E reply \in SummarizeReplies : SummarizeReplied(reply) /\ UNCHANGED <<serverVars, pageVars>>
    \/ OpenEditor /\ UNCHANGED <<serverVars, pageVars>>
    \/ CloseEditor /\ UNCHANGED <<serverVars, pageVars>>
    \/ \E s \in 1..MaxClientSlides, v \in TitleTexts :
           TitleInput(s, v) /\ UNCHANGED <<serverVars, pageVars>>
    \/ \E s \in 1..MaxClientSlides, p \in 1..MaxPoints, v \in PointTexts :
           PointInput(s, p, v) /\ UNCHANGED <<serverVars, pageVars>>
    \/ \E s \in 1..MaxClientSlides : AddPoint(s) /\ UNCHANGED <<serverVars, pageVars>>
    \/ \E s \in 1..MaxClientSlides, p \in 1..MaxPoints :
           RemovePoint(s, p) /\ UNCHANGED <<serverVars, pageVars>>
    \/ ExportToHTML /\ UNCHANGED <<serverVars, pageVars>>
    \/ ExportToPDF /\ UNCHANGED <<serverVars, pageVars>>

\* the page does not depend on which server serves it
ClientInit == Init /\ platform = "express" /\ hfKey /\ geminiKey

ClientSpec == ClientInit /\ [][ClientNext]_vars

(***************************************************************************)
(* The operations of the audio tab and of the slide viewer.  The markup   *)
(* of the page is not part of the script: the page starts with no file    *)
(* chosen, the upload area shown and the button submit-audio disabled,    *)
(* the state clearInputs restores.  One processAudio and one               *)
(* processTranscript started by Generate run at a time.                   *)
(***************************************************************************)
\* clearInputs
ClearInputs ==
    /\ audioInputFile' = "none"
    /\ fileInfoShown' = FALSE
    /\ submitAudioDisabled' = TRUE
    /\ HideError
    /\ resultsHidden' = TRUE

\* a click on a tab button
TabClick ==
    /\ ClearInputs
    /\ artifact' = NoArtifact
    /\ UNCHANGED <<cpc, loading, slidesData, summaryData, summaryContent, slidesContent,
                   editOpen, editForm, hideTimers, apc, currentSlideIndex, viewerOpen,
                   nextSlideDisabled>>

\* the types of the files the user picks
FileTypes == {"audio", "other"}

\* handleFileSelect
HandleFileSelect(type) ==
    IF type # "audio"
    THEN /\ ShowError(<<"Please upload an audio file (MP3, WAV, M4A, etc.)">>)
         /\ UNCHANGED <<fileInfoShown, submitAudioDisabled>>
    ELSE /\ fileInfoShown' = TRUE
         /\ submitAudioDisabled' = FALSE
         /\ UNCHANGED errorMessage

\* a file is chosen in the dialog of audioInput (change), or dropped on the
\* upload area (drop), which leaves audioInput.files as it is; the upload
\* area is hidden while the file info is shown
SelectFile(how, type) ==
    /\ ~fileInfoShown
    /\ audioInputFile' = IF how = "change" THEN type ELSE audioInputFile
    /\ HandleFileSelect(type)
    /\ artifact' = NoArtifact
    /\ UNCHANGED <<cpc, loading, slidesData, summaryData, summaryContent, slidesContent,
                   resultsHidden, editOpen, editForm, hideTimers, apc, currentSlideIndex,
                   viewerOpen, nextSlideDisabled>>

\* a click on the remove button of the file info
RemoveFile ==
    /\ fileInfoShown
    /\ audioInputFile' = "none"
    /\ fileInfoShown' = FALSE
    /\ submitAudioDisabled' = TRUE
    /\ artifact' = NoArtifact
    /\ UNCHANGED <<cpc, loading, errorMessage, slidesData, summaryData, summaryContent,
                   slidesContent, resultsHidden, editOpen, editForm, hideTimers, apc,
                   currentSlideIndex, viewerOpen, nextSlideDisabled>>

\* a click on Transcribe & Generate: without a file in audioInput an error
\* is shown; otherwise processAudio runs up to its fetch
SubmitAudio ==
    /\ ~submitAudioDisabled
    /\ apc = "idle"
    /\ IF audioInputFile = "none"
       THEN /\ ShowError(<<"Please select an audio file">>)
            /\ UNCHANGED <<loading, submitAudioDisabled, apc>>
       ELSE /\ SetLoading(TRUE)
            /\ HideError
            /\ apc' = "transcribing"
    /\ artifact' = NoArtifact
    /\ UNCHANGED <<cpc, slidesData, summaryData, summaryContent, slidesContent,
                   resultsHidden, editOpen, editForm, hideTimers, audioInputFile,
                   fileInfoShown, currentSlideIndex, viewerOpen, nextSlideDisabled>>

\* what fetch(/api/transcribe) settles with; data is the member transcript
TranscribeReplies ==
    { Reply("network", 0, "none", <<>>, <<>>) }
    \cup { Reply("http", st, "json", e, <<>>) :
             st \in {400, 500}, e \in { <<>>, <<"No audio file provided">> } }
    \cup { Reply("http", 502, "notjson", <<>>, <<>>) }
    \cup { Reply("ok", 200, "notjson", <<>>, <<>>) }
    \cup { Reply("ok", 200, "json", <<>>, t) : t \in { <<>>, <<"hello", "world">> } }

\* faulty variant: a page that sends whatever transcript it received
TranscriptionErrorAllowingEmpty(reply) ==
    IF reply.kind = "network" THEN <<"Failed to fetch">>
    ELSE IF reply.body = "notjson" THEN SyntaxErrorMessage
    ELSE IF ~ReplyOk(reply)
    THEN (IF reply.error = <<>> THEN <<"Transcription failed">> ELSE reply.error)
    ELSE <<>>

\* the message of the error the try block of processAudio throws before it
\* calls processTranscript; empty when it throws none
TranscriptionError(reply) ==
    IF reply.kind = "network" THEN <<"Failed to fetch">>
    ELSE IF reply.body = "notjson" THEN SyntaxErrorMessage
    ELSE IF ~ReplyOk(reply)
    THEN (IF reply.error = <<>> THEN <<"Transcription failed">> ELSE reply.error)
    ELSE IF reply.data = <<>> THEN <<"No transcript generated from audio">>
    ELSE <<>>

\* the fetch of processAudio settles: the catch shows the error and ends
\* the loading state, or processTranscript runs up to its fetch
TranscribeReplied(reply) ==
    /\ apc = "transcribing"
    /\ IF TranscriptionError(reply) # <<>>
       THEN /\ ShowError(TranscriptionError(reply))
            /\ SetLoading(FALSE)
            /\ apc' = "idle"
       ELSE /\ SetLoading(TRUE)
            /\ HideError
            /\ apc' = "summarizing"
    /\ artifact' = NoArtifact
    /\ UNCHANGED <<cpc, slidesData, summaryData, summaryContent, slidesContent,
                   resultsHidden, editOpen, editForm, hideTimers, audioInputFile,
                   fileInfoShown, currentSlideIndex, viewerOpen, nextSlideDisabled>>

\* faulty variant: a processTranscript that leaves the loading state on
\* when the request failed
AudioSummarizeRepliedKeepingLoading(reply) ==
    /\ apc = "summarizing"
    /\ IF ReplyOk(reply) /\ reply.body = "json" /\ ~PreviewThrows(reply.data)
       THEN ProcessTranscriptSettles(reply)
       ELSE /\ ShowError(FailureMessage(reply))
            /\ artifact' = NoArtifact
            /\ UNCHANGED <<loading, submitAudioDisabled, slidesData, summaryData,
                           summaryContent, slidesContent, resultsHidden, editOpen,
                           editForm, hideTimers>>
    /\ apc' = "idle"
    /\ UNCHANGED <<cpc, audioInputFile, fileInfoShown, currentSlideIndex, viewerOpen,
                   nextSlideDisabled>>

\* the fetch of the processTranscript that processAudio called settles
AudioSummarizeReplied(reply) ==
    /\ apc = "summarizing"
    /\ ProcessTranscriptSettles(reply)
    /\ apc' = "idle"
    /\ UNCHANGED <<cpc, audioInputFile, fileInfoShown, currentSlideIndex, viewerOpen,
                   nextSlideDisabled>>

\* renderSlides with the slide idx current: nothing but a notice without
\* slides, a TypeError when a slide has no points, otherwise the slides,
\* the counter and the navigation buttons
RenderSlides(idx) ==
    nextSlideDisabled' =
        IF ~slidesData.defined \/ slidesData.items = <<>> \/ RenderThrows(slidesData.items)
        THEN nextSlideDisabled
        ELSE idx = Len(slidesData.items) - 1

\* a click on View Slides
ViewSlides ==
    /\ ~viewerOpen
    /\ IF ~slidesData.defined \/ slidesData.items = <<>>
       THEN /\ ShowError(<<"No slides available">>)
            /\ UNCHANGED <<currentSlideIndex, viewerOpen, nextSlideDisabled>>
       ELSE /\ currentSlideIndex' = 0
            /\ RenderSlides(0)
            /\ viewerOpen' = ~RenderThrows(slidesData.items)
            /\ UNCHANGED errorMessage
    /\ artifact' = NoArtifact
    /\ UNCHANGED <<cpc, loading, submitAudioDisabled, slidesData, summaryData,
                   summaryContent, slidesContent, resultsHidden, editOpen, editForm,
                   hideTimers, apc, audioInputFile, fileInfoShown>>

\* a click on the close button of the slides modal, or on its backdrop
CloseViewer ==
    /\ viewerOpen
    /\ viewerOpen' = FALSE
    /\ artifact' = NoArtifact
    /\ UNCHANGED <<cpc, loading, submitAudioDisabled, errorMessage, slidesData,
                   summaryData, summaryContent, slidesContent, resultsHidden, editOpen,
                   editForm, hideTimers, apc, audioInputFile, fileInfoShown,
                   currentSlideIndex, nextSlideDisabled>>

\* a click on the previous button, which is disabled on the first slide
PrevSlide ==
    /\ viewerOpen
    /\ currentSlideIndex > 0
    /\ currentSlideIndex' = currentSlideIndex - 1
    /\ RenderSlides(currentSlideIndex - 1)
    /\ artifact' = NoArtifact
    /\ UNCHANGED <<cpc, loading, submitAudioDisabled, errorMessage, slidesData,
                   summaryData, summaryContent, slidesContent, resultsHidden, editOpen,
                   editForm, hideTimers, apc, audioInputFile, fileInfoShown, viewerOpen>>

\* a click on the next button, unless renderSlides disabled it
NextSlide ==
    /\ viewerOpen
    /\ ~nextSlideDisabled
    /\ currentSlideIndex < Len(slidesData.items) - 1
    /\ currentSlideIndex' = currentSlideIndex + 1
    /\ RenderSlides(currentSlideIndex + 1)
    /\ artifact' = NoArtifact
    /\ UNCHANGED <<cpc, loading, submitAudioDisabled, errorMessage, slidesData,
                   summaryData, summaryContent, slidesContent, resultsHidden, editOpen,
                   editForm, hideTimers, apc, audioInputFile, fileInfoShown, viewerOpen>>

PageNext ==
    \/ TabClick /\ UNCHANGED serverVars
    \/ \E how \in {"change", "drop"}, type \in FileTypes :
           SelectFile(how, type) /\ UNCHANGED serverVars
    \/ RemoveFile /\ UNCHANGED serverVars
    \/ \E entered \in BOOLEAN : SubmitTranscript(entered) /\ UNCHANGED <<serverVars, pageVars>>
    \/ \E reply \in SummarizeReplies : SummarizeReplied(reply) /\ UNCHANGED <<serverVars, pageVars>>
    \/ SubmitAudio /\ UNCHANGED serverVars
    \/ \E reply \in TranscribeReplies : TranscribeReplied(reply) /\ UNCHANGED serverVars
    \/ \E reply \in SummarizeReplies : AudioSummarizeReplied(reply) /\ UNCHANGED serverVars
    \/ ViewSlides /\ UNCHANGED serverVars
    \/ CloseViewer /\ UNCHANGED serverVars
    \/ PrevSlide /\ UNCHANGED serverVars
    \/ NextSlide /\ UNCHANGED serverVars

PageSpec == ClientInit /\ [][PageNext]_vars

\* every fetch settles: the browser answers each request or rejects it
PageFairSpec ==
    /\ ClientInit
    /\ [][PageNext]_vars
    /\ WF_vars(\E reply \in SummarizeReplies :
                   SummarizeReplied(reply) /\ UNCHANGED <<serverVars, pageVars>>)
    /\ WF_vars(\E reply \in TranscribeReplies :
                   TranscribeReplied(reply) /\ UNCHANGED serverVars)
    /\ WF_vars(\E reply \in SummarizeReplies :
                   AudioSummarizeReplied(reply) /\ UNCHANGED serverVars)

\* the answers and the texts typed while the deck is edited and saved
EditReplies ==
    { reply \in SummarizeReplies :
        reply.kind = "network" \/ (ReplyOk(reply) /\ reply.data.hasSlides
                                   /\ Len(reply.data.slides) \in {1, MaxClientSlides}) }

EditTitleTexts == { <<"<", "&", ">">> }

EditPointTexts == { <<>> }

\* generation, the edit modal and Save Changes
EditNext ==
    \/ \E entered \in BOOLEAN : SubmitTranscript(entered) /\ UNCHANGED <<serverVars, pageVars>>
    \/ \E reply \in EditReplies : SummarizeReplied(reply) /\ UNCHANGED <<serverVars, pageVars>>
    \/ OpenEditor /\ UNCHANGED <<serverVars, pageVars>>
    \/ CloseEditor /\ UNCHANGED <<serverVars, pageVars>>
    \/ \E s \in 1..MaxClientSlides, v \in EditTitleTexts :
           TitleInput(s, v) /\ UNCHANGED <<serverVars, pageVars>>
    \/ \E s \in 1..MaxClientSlides, p \in 1..MaxPoints, v \in EditPointTexts :
           PointInput(s, p, v) /\ UNCHANGED <<serverVars, pageVars>>
    \/ \E s \in 1..MaxClientSlides : AddPoint(s) /\ UNCHANGED <<serverVars, pageVars>>
    \/ \E s \in 1..MaxClientSlides, p \in 1..MaxPoints :
           RemovePoint(s, p) /\ UNCHANGED <<serverVars, pageVars>>
    \/ SaveEdits /\ UNCHANGED <<serverVars, pageVars>>
    \/ HideTimerFires /\ UNCHANGED <<serverVars, pageVars>>

EditSpec == ClientInit /\ [][EditNext]_vars

(***************************************************************************)
(* Definitions used to state the properties.                               *)
(***************************************************************************)
CallsTo(p) == Cardinality({ i \in 1..Len(calls) : calls[i].provider = p })

\* shorter than 50 characters: missing, not a string, blank, or too short
ShortTranscript(t) ==
    t.type # "string" \/ t.trimLen = 0 \/ t.len < MinTranscriptLength

Requested == transcript # NoTranscript

\* the error that ended the request: that of the last attempt made
SurfacedError == IF CallsTo("gemini") = 1 THEN geminiError ELSE hfError

\* C1: a request whose transcript is shorter than 50 characters (missing,
\* not a string or whitespace-only included) is answered 400, and no call to
\* a provider is issued or in flight at any point of the request
C1_ShortTranscriptRejected ==
    (Requested /\ ShortTranscript(transcript))
        => /\ pc = "done"
           /\ response.status = 400
           /\ calls = <<>>
           /\ inflight = {}

C1_Witness ==
    /\ pc = "done"
    /\ transcript = Str(MinTranscriptLength - 1, MinTranscriptLength - 1)
    /\ response.status = 400
    /\ hfKey /\ geminiKey

\* C2: with neither credential configured, a valid request fails with the
\* configuration error as a 500, and no provider call is attempted
C2_NoCredentialNoCall ==
    (Requested /\ ~ShortTranscript(transcript) /\ ~hfKey /\ ~geminiKey)
        => /\ pc = "done"
           /\ response.status = 500
           /\ response.error = NoAIConfigured(platform)
           /\ calls = <<>>
           /\ inflight = {}

C2_Witness ==
    /\ pc = "done" /\ ~hfKey /\ ~geminiKey
    /\ transcript = Str(MinTranscriptLength + 10, MinTranscriptLength + 10)
    /\ response.status = 500

\* C3: when both credentials are configured and the Hugging Face attempt has
\* failed, whatever the failure, exactly one call has been made to Gemini,
\* after the Hugging Face call and with the prompt of the Hugging Face call
C3_OneFallbackCallSamePrompt ==
    (hfKey /\ geminiKey /\ hfError # NoError)
        => /\ CallsTo("gemini") = 1
           /\ Len(calls) = 2
           /\ calls[1].provider = "hf"
           /\ calls[2].provider = "gemini"
           /\ calls[2].prompt = calls[1].prompt
           /\ calls[2].prompt.transcript = transcript

C3_Witness ==
    /\ pc = "done" /\ hfKey /\ geminiKey
    /\ hfError.kind = "shape"
    /\ CallsTo("gemini") = 1
    /\ response.status = 200

\* C4: with exactly one credential configured only that provider is called:
\* Hugging Face alone surfaces its own failure without a Gemini call, and
\* Gemini alone means Hugging Face is never called
C4_OnlyConfiguredProviderCalled ==
    /\ (hfKey /\ ~geminiKey) => CallsTo("gemini") = 0
    /\ (~hfKey /\ geminiKey) => CallsTo("hf") = 0
    /\ (hfKey /\ ~geminiKey /\ hfError # NoError)
          => /\ pc = "done"
             /\ response.status = 500
             /\ response.error = hfError.msg
             /\ calls = <<Call("hf", transcript)>>

C4_Witness ==
    /\ pc = "done" /\ hfKey /\ ~geminiKey
    /\ hfError.kind = "http"
    /\ response.status = 500
    /\ CallsTo("hf") = 1

\* C5: the provider calls of one request are sequential and bounded: never
\* two in flight, each provider called at most once (a 503 is not retried),
\* Gemini called after Hugging Face only once Hugging Face has failed, and
\* never when Hugging Face succeeded
C5_SequentialAtMostOnce ==
    /\ Cardinality(inflight) <= 1
    /\ CallsTo("hf") <= 1
    /\ CallsTo("gemini") <= 1
    /\ Len(calls) <= 2
    /\ (CallsTo("hf") = 1 /\ CallsTo("gemini") = 1)
          => /\ calls[1].provider = "hf"
             /\ hfError # NoError
             /\ "hf" \notin inflight
    /\ (pc = "done" /\ CallsTo("hf") = 1 /\ hfError = NoError)
          => /\ response.status = 200
             /\ CallsTo("gemini") = 0
    /\ (pc = "done" /\ lastResp.status = 503)
          => CallsTo(calls[Len(calls)].provider) = 1

C5_Witness ==
    /\ pc = "done" /\ hfKey /\ ~geminiKey
    /\ lastResp.status = 503
    /\ calls = <<Call("hf", transcript)>>
    /\ response.status = 500

\* the text the last response carried, when it carried one
CarriesText(r) ==
    r.kind = "ok" /\ r.envelope \in {"array", "object", "string", "text"}

\* section 4.3, steps 1 to 3: trim, strip the fences, extract the braces
SpecCandidate(text) == ExtractBraces(StripFences(Trim(text)))

WellFormed(p) ==
    p.ok /\ ~p.isNull /\ Truthy(p.val.summary) /\ IsArray(p.val.slides)

\* C6: whenever the text of a provider response, after fence stripping and
\* brace extraction, is valid JSON with a non-empty summary and an array
\* slides, the request succeeds with exactly that parsed object, whichever
\* provider answered
C6_RoundTripBothProviders ==
    (pc = "done" /\ CarriesText(lastResp)
       /\ WellFormed(JSONParse(SpecCandidate(lastResp.text))))
        => /\ response.status = 200
           /\ response.deck = JSONParse(SpecCandidate(lastResp.text)).val

\* a valid document in json fences, preceded by commentary without braces
FencedAfterCommentary(text) ==
    \E n \in 1..MaxCommentary, b \in Objects, q \in Suffixes :
        /\ text = Rep("txt", n) \o <<"nl", "fence", "json", "nl">> \o b \o <<"nl", "fence">> \o q
        /\ WellFormed(JSONParse(b))

FencedDocument(text) ==
    CHOOSE b \in Objects :
        \E n \in 1..MaxCommentary, q \in Suffixes :
            text = Rep("txt", n) \o <<"nl", "fence", "json", "nl">> \o b \o <<"nl", "fence">> \o q

\* C7: a valid JSON object wrapped in json fences and preceded by commentary
\* is recovered as the SlideDeck, whichever provider produced the response
C7_FencedWithCommentaryRecovered ==
    (pc = "done" /\ CarriesText(lastResp) /\ FencedAfterCommentary(lastResp.text))
        => /\ response.status = 200
           /\ response.deck = JSONParse(FencedDocument(lastResp.text)).val

\* what a caller can test a message for: the parse message, or the word JSON
\* of a syntax error
MentionsParsing(msg) == msg = FailedToParse \/ Includes(msg, "JSON")

\* C8: a parse failure and a shape failure can be told apart by their
\* messages, and both end the attempt in the same way: after Hugging Face,
\* Gemini is tried if configured and the error is surfaced otherwise; after
\* Gemini the error is surfaced
C8_FormatErrorsDistinctSameFallback ==
    /\ hfError.kind = "parse" => MentionsParsing(hfError.msg)
    /\ hfError.kind = "shape" => ~MentionsParsing(hfError.msg)
    /\ geminiError.kind = "parse" => MentionsParsing(geminiError.msg)
    /\ geminiError.kind = "shape" => ~MentionsParsing(geminiError.msg)
    /\ hfError.kind \in {"parse", "shape"}
          => IF geminiKey
             THEN /\ pc \in {"gemini", "done"}
                  /\ Len(calls) = 2
                  /\ calls[2] = Call("gemini", transcript)
             ELSE /\ pc = "done"
                  /\ response.status = 500
                  /\ response.error = hfError.msg
                  /\ CallsTo("gemini") = 0
    /\ geminiError.kind \in {"parse", "shape"}
          => /\ pc = "done"
             /\ response.status = 500
             /\ response.error = geminiError.msg
             /\ CallsTo("gemini") = 1

C8_Witness ==
    /\ pc = "done" /\ hfKey /\ geminiKey
    /\ hfError.kind = "parse"
    /\ geminiError.kind = "shape"
    /\ response.status = 500

\* C9 as written: every parse or shape failure surfaced to the caller
\* carries the parse message, on both platforms
C9_FormatErrorsCarryParseMessage ==
    (pc = "done" /\ response.status = 500 /\ SurfacedError.kind \in {"parse", "shape"})
        => response.error = FailedToParse

\* C9 as amended: the Express server reports a JSON parse failure with the
\* parse message and a shape failure as a failed generation naming the
\* provider; the Cloudflare handler reports the message of the underlying
\* error unchanged
C9_ParseMessageOnlyForParseOnExpress ==
    (pc = "done" /\ response.status = 500 /\ SurfacedError.kind \in {"parse", "shape"})
        => LET invalid == IF CallsTo("gemini") = 1
                          THEN <<"Invalid response format from Gemini">>
                          ELSE <<"Invalid response format from Hugging Face">>
           IN  response.error =
                 IF platform = "express"
                 THEN IF SurfacedError.kind = "parse" THEN FailedToParse
                      ELSE GenerationFailed(invalid)
                 ELSE IF SurfacedError.kind = "parse" THEN SyntaxErrorMessage
                      ELSE invalid

C9_Witness ==
    /\ pc = "done" /\ platform = "express"
    /\ response.status = 500
    /\ SurfacedError.kind = "parse"
    /\ response.error = FailedToParse

\* the text each provider attempt hands to JSON.parse
CodeCandidate(text) ==
    IF CallsTo("gemini") = 1 THEN StripFences(Trim(text))
    ELSE ExtractBraces(StripFences(Trim(text)))

\* C10: a deck that is returned has a truthy summary and an array slides;
\* nothing else is validated: whenever the parsed document has these two,
\* it is returned as it is, slides empty or incomplete included
C10_DeckShapeOnly ==
    /\ response.status = 200
          => /\ Truthy(response.deck.summary)
             /\ IsArray(response.deck.slides)
    /\ (pc = "done" /\ CarriesText(lastResp)
          /\ ~(lastResp.envelope \in {"array", "object"} /\ lastResp.text = <<>>)
          /\ WellFormed(JSONParse(CodeCandidate(lastResp.text))))
          => /\ response.status = 200
             /\ response.deck = JSONParse(CodeCandidate(lastResp.text)).val

C10_Witness ==
    /\ pc = "done" /\ response.status = 200
    /\ Len(response.deck.slides.items) = 1
    /\ response.deck.slides.items[1].title = Absent

C10_WitnessEmptySlides ==
    /\ pc = "done" /\ response.status = 200
    /\ response.deck.slides.items = <<>>

(***************************************************************************)
(* Properties of /api/transcribe.                                          *)
(***************************************************************************)
TranscribeRequested == audioField # "unset"

\* the number of 503 answers this request has received
Count503 == Cardinality({ i \in 1..Len(asrSeen) : asrSeen[i].status = 503 })

\* a 200 that carries a recognized text
AsrCarriesText(r) ==
    r.kind = "ok" /\ r.envelope \in {"string", "object", "array"} /\ r.text # <<>>

\* the seconds the provider asks to wait: its header, 10 without one
AskedSeconds(r) ==
    IF r.retryAfter = NoHeader THEN 10
    ELSE IF r.retryAfter = Header(<<0>>) THEN 0
    ELSE 2

\* C11: when the endpoint answers the first request with 503 and the next
\* with 200 and a text, the transcription resolves to that text after
\* exactly one retry delay and exactly two requests, and the 503 is not
\* surfaced: nothing is answered while the retry is pending
C11_Retried503ResolvesToText ==
    /\ (Len(asrSeen) = 1 /\ asrSeen[1].status = 503)
           => /\ tpc \in {"sleep", "asr"}
              /\ tResponse = NoTranscribeResponse
              /\ Len(waits) = 1
    /\ (Len(asrSeen) = 2 /\ asrSeen[1].status = 503 /\ AsrCarriesText(asrSeen[2]))
           => /\ tpc = "done"
              /\ tResponse.status = 200
              /\ tResponse.error = <<>>
              /\ tResponse.transcript = asrSeen[2].text
              /\ Len(asrCalls) = 2
              /\ Len(waits) = 1

C11_Witness ==
    /\ tpc = "done"
    /\ Len(asrSeen) = 2
    /\ asrSeen[1].status = 503 /\ asrSeen[1].retryAfter = Header(<<2>>)
    /\ asrSeen[2].envelope = "object"
    /\ tResponse.status = 200
    /\ tResponse.transcript = <<"hello", "world">>
    /\ waits = <<2000>>
    /\ Len(asrCalls) = 2

C14_UploadDeletedBeforeResponse ==
    platform = "express"
        => /\ tResponse.status # 0 => upload # "stored"
           /\ (tResponse.status # 0 /\ audioField = "audio") => upload = "deleted"
           /\ upload = "stored" => tpc \in {"asr", "sleep"}

C14_Witness ==
    /\ platform = "express"
    /\ audioField = "audio"
    /\ tpc = "done"
    /\ asrSeen # <<>>
    /\ asrSeen[Len(asrSeen)].envelope = "other"
    /\ tResponse.status = 500
    /\ upload = "deleted"

C14_WitnessNoCredential ==
    /\ platform = "express"
    /\ audioField = "audio"
    /\ ~hfKey
    /\ tResponse.status = 500
    /\ upload = "deleted"

(***************************************************************************)
(* Properties of the request boundary of /api/summarize.                   *)
(***************************************************************************)
\* C15: every error of the generation pipeline (configuration, transport,
\* parse, shape) is answered at the request boundary with a JSON error
\* body: a request is answered exactly when its handler is done, a request
\* whose last attempt failed or that found no provider is answered 500
\* with a non-empty error and no deck
C15_PipelineErrorsAnswered ==
    /\ pc = "done" <=> response.status # 0
    /\ response.status \in {0, 200, 400, 500}
    /\ inflight # {} => response = NoHttpResponse
    /\ (pc = "done" /\ SurfacedError # NoError)
           => /\ response.status = 500
              /\ response.error # <<>>
              /\ response.deck = NoDeck
    /\ (pc = "done" /\ Requested /\ ~ShortTranscript(transcript) /\ calls = <<>>)
           => /\ response.status = 500
              /\ response.error = NoAIConfigured(platform)
    /\ response.status = 200 => (SurfacedError = NoError /\ response.error = <<>>)

C15_Witness ==
    /\ pc = "done"
    /\ hfError.kind = "shape"
    /\ geminiError.kind = "network"
    /\ response.status = 500
    /\ response.error # <<>>

\* C16: every 500 that /api/summarize answers on a provider or
\* configuration failure carries an error and a hint, on both platforms
C16_ServerErrorsCarryHint ==
    (pc = "done" /\ Requested /\ response.status = 500)
        => /\ response.error # <<>>
           /\ response.hint

\* C17: /api/transcribe answers 400 to a form without an audio file, and
\* 500 to a form with a file when HUGGINGFACE_API_KEY is not set; in both
\* cases no request is sent to the speech recognition endpoint
C17_TranscribeRejections ==
    /\ audioField = "absent"
           => /\ tpc = "done"
              /\ tResponse.status = 400
              /\ asrCalls = <<>>
    /\ (audioField \in {"audio", "other"} /\ ~hfKey)
           => /\ tpc = "done"
              /\ tResponse.status = 500
              /\ asrCalls = <<>>
              /\ asrSeen = <<>>

C17_Witness ==
    /\ audioField = "audio"
    /\ ~hfKey
    /\ tpc = "done"
    /\ tResponse.status = 500
    /\ tResponse.hint
    /\ asrCalls = <<>>

C17_WitnessNoFile ==
    /\ audioField = "absent"
    /\ hfKey
    /\ tResponse.status = 400

(***************************************************************************)
(* Properties of requests served at once.                                  *)
(***************************************************************************)
\* what one request alone does with transcript t when its provider calls
\* are answered, in order, by the answers of seen: its calls and response
AloneOutcome(t, seen) ==
    LET google == GoogleAvailable(platform, genAI, geminiKey)
        first == FirstProvider(hfKey, google)
        gemini(r, sent) ==
            LET res == GenerateWithGoogle(platform, r)
            IN  [calls |-> sent,
                 response |-> IF res.ok THEN Success(res.deck)
                              ELSE ServerError(platform, res.err.msg)]
    IN  IF Validate(t) = "required"
        THEN [calls |-> <<>>, response |-> BadRequest(<<"Transcript is required">>)]
        ELSE IF Validate(t) = "short"
        THEN [calls |-> <<>>,
              response |-> BadRequest(<<"Transcript is too short. Please provide at least 50 characters.">>)]
        ELSE IF first = "none"
        THEN [calls |-> <<>>, response |-> ServerError(platform, NoAIConfigured(platform))]
        ELSE IF first = "gemini"
        THEN gemini(seen[1], <<Call("gemini", t)>>)
        ELSE LET res == GenerateWithHuggingFace(platform, seen[1])
             IN  IF res.ok
                 THEN [calls |-> <<Call("hf", t)>>, response |-> Success(res.deck)]
                 ELSE IF FallbackProvider(google) = "gemini"
                 THEN gemini(seen[2], <<Call("hf", t), Call("gemini", t)>>)
                 ELSE [calls |-> <<Call("hf", t)>>,
                       response |-> ServerError(platform, res.err.msg)]

\* C19: the outcome of a request served together with others (its status,
\* its deck or error, its provider calls) is the outcome the same request
\* has alone: it depends on its own transcript, the credentials and the
\* answers to its own calls only; a request that is still pending has sent
\* calls that carry its own transcript and has not been answered
C19_RequestsIndependent ==
    \A i \in RequestIds :
        /\ reqs[i].pc = "done"
               => /\ reqs[i].response = AloneOutcome(reqs[i].transcript, reqs[i].seen).response
                  /\ reqs[i].calls = AloneOutcome(reqs[i].transcript, reqs[i].seen).calls
        /\ reqs[i].pc \in {"hf", "gemini"}
               => /\ reqs[i].response = NoHttpResponse
                  /\ \A k \in 1..Len(reqs[i].calls) :
                         reqs[i].calls[k].prompt.transcript = reqs[i].transcript

\* one request has fallen back to Gemini and is answered while another,
\* with another transcript, is still waiting for Hugging Face
C19_Witness ==
    /\ reqs[1].pc = "done"
    /\ reqs[1].response.status = 200
    /\ Len(reqs[1].calls) = 2
    /\ reqs[2].pc = "hf"
    /\ reqs[2].transcript # reqs[1].transcript

(***************************************************************************)
(* Properties of the page.                                                 *)
(***************************************************************************)
\* C18: a generation that fails (a status that is not 2xx, or a network
\* error) shows no part of a deck: neither the start of the request nor
\* the step that receives the failure runs displayResults, so the stored
\* deck (slidesData, summaryData), the rendered summary and slides and the
\* results section are as they were
C18_FailedGenerationShowsNoDeck ==
    [][ ( \/ \E entered \in BOOLEAN : SubmitTranscript(entered)
          \/ \E reply \in SummarizeReplies :
                 reply.kind \in {"network", "http"} /\ SummarizeReplied(reply) )
        => UNCHANGED <<slidesData, summaryData, summaryContent, slidesContent,
                       resultsHidden>> ]_vars

\* a generation failed after an earlier one had shown a deck of two slides
C18_Witness ==
    /\ cpc = "idle"
    /\ ~loading
    /\ errorMessage = Shown(<<"AI generation failed">>)
    /\ slidesData.defined
    /\ Len(slidesData.items) = 2
    /\ slidesContent = Preview(slidesData.items)
    /\ summaryContent = SummaryText
    /\ ~resultsHidden

\* the text a browser shows for escaped markup
RECURSIVE UnescapeHtml(_)
UnescapeHtml(s) ==
    IF s = <<>> THEN <<>>
    ELSE IF Len(s) >= 5 /\ SubSeq(s, 1, 5) = <<"&", "a", "m", "p", ";">>
    THEN <<"&">> \o UnescapeHtml(SubSeq(s, 6, Len(s)))
    ELSE IF Len(s) >= 4 /\ SubSeq(s, 1, 4) = <<"&", "l", "t", ";">>
    THEN <<"<">> \o UnescapeHtml(SubSeq(s, 5, Len(s)))
    ELSE IF Len(s) >= 4 /\ SubSeq(s, 1, 4) = <<"&", "g", "t", ";">>
    THEN <<">">> \o UnescapeHtml(SubSeq(s, 5, Len(s)))
    ELSE <<Head(s)>> \o UnescapeHtml(Tail(s))

\* the points a slide holds, in order
PointsOf(slide) ==
    LET held == SelectSeq(slide.points, LAMBDA q : ~q.hole)
    IN  [k \in 1..Len(held) |-> held[k].text]

C20_WitnessEmptyDeck ==
    /\ slidesData.defined
    /\ slidesData.items = <<>>
    /\ artifact = NoArtifact
    /\ errorMessage = Shown(<<"No slides available to export">>)

\* the phrases by which a message names a provider
ProviderNames(p) ==
    IF p = "hf"
    THEN { "Hugging Face API error:", "Unexpected response format from Hugging Face",
           "Invalid response format from Hugging Face" }
    ELSE { "[GoogleGenerativeAI Error]:", "Gemini API error:",
           "Invalid response from Gemini API", "Invalid response format from Gemini" }

NamesProvider(msg, p) == \E i \in 1..Len(msg) : msg[i] \in ProviderNames(p)

BothFailed == pc = "done" /\ hfKey /\ geminiKey /\ hfError # NoError /\ geminiError # NoError

PrimaryAloneFailed == pc = "done" /\ hfKey /\ ~geminiKey /\ hfError # NoError

NamedFailure(err) == err.kind \in {"http", "envelope", "shape"} /\ err.msg # FailedToParse

C22_LengthGateExact ==
    Requested /\ transcript.type = "string"
        => /\ (transcript.trimLen > 0 /\ transcript.len = MinTranscriptLength - 1)
                 => /\ pc = "done"
                    /\ response = BadRequest(<<"Transcript is too short. Please provide at least 50 characters.">>)
                    /\ calls = <<>> /\ inflight = {}
           /\ (transcript.trimLen > 0 /\ transcript.len = MinTranscriptLength)
                 => /\ response.status # 400
                    /\ (hfKey \/ geminiKey) => Len(calls) >= 1
                    /\ (~hfKey /\ ~geminiKey) => response.error = NoAIConfigured(platform)
           /\ transcript.trimLen = 0
                 => /\ pc = "done"
                    /\ response = BadRequest(<<"Transcript is required">>)
                    /\ calls = <<>> /\ inflight = {}

\* a transcript of exactly 50 characters, waiting for the first provider
C22_Witness ==
    /\ transcript = Str(MinTranscriptLength, MinTranscriptLength)
    /\ pc = "hf"
    /\ calls = <<Call("hf", transcript)>>
    /\ response = NoHttpResponse

\* a transcript of 60 blanks is refused as missing
C22_WitnessBlank ==
    /\ transcript = Str(MinTranscriptLength + 10, 0)
    /\ pc = "done"
    /\ response.status = 400
    /\ response.error = <<"Transcript is required">>

\* a transcription that succeeded with a transcript
GoodTranscription(reply) == reply.kind = "ok" /\ reply.body = "json" /\ reply.data # <<>>

\* what displayResults writes
Displayed == <<slidesData, summaryData, summaryContent, slidesContent>>

\* C23: on the audio path the stages run in the order transcription,
\* generation, presentation: processAudio starts with the transcription;
\* the summarize request is sent only in the step that receives a
\* successful transcription with a transcript that is not empty; a failed
\* transcription ends the flow with an error shown, the loading state
\* cleared and no summarize request; and nothing is displayed but in the
\* step that receives a successful answer of /api/summarize
C23_AudioPathInOrder ==
    [][ /\ (apc' = "transcribing" /\ apc # "transcribing") => apc = "idle"
        /\ (apc' = "summarizing" /\ apc # "summarizing")
              => /\ apc = "transcribing"
                 /\ \E reply \in TranscribeReplies :
                        GoodTranscription(reply) /\ TranscribeReplied(reply)
        /\ \A reply \in TranscribeReplies :
               (TranscribeReplied(reply) /\ ~GoodTranscription(reply))
                   => /\ apc' = "idle"
                      /\ ~errorMessage'.hidden
                      /\ ~loading'
                      /\ Displayed' = Displayed
        /\ Displayed' # Displayed
              => \E reply \in SummarizeReplies :
                     /\ reply.kind = "ok" /\ reply.body = "json"
                     /\ \/ (apc = "summarizing" /\ AudioSummarizeReplied(reply))
                        \/ (cpc = "fetching" /\ SummarizeReplied(reply)) ]_vars

\* the transcription succeeded and the summarize request is in flight
C23_Witness ==
    /\ apc = "summarizing"
    /\ cpc = "idle"
    /\ loading
    /\ errorMessage.hidden
    /\ ~slidesData.defined

\* C24: while the viewer is open on a stored deck that is not empty, the
\* index of the current slide is an index of the deck
C24_IndexWithinDeck ==
    (viewerOpen /\ slidesData.defined /\ slidesData.items # <<>>)
        => (0 <= currentSlideIndex /\ currentSlideIndex < Len(slidesData.items))

RequestInFlight == cpc = "fetching" \/ apc # "idle"

\* C25: while a request started from the page is in flight, both submit
\* buttons are disabled and no second request is in flight
C25_SubmitDisabledWhileInFlight ==
    /\ RequestInFlight => (loading /\ submitAudioDisabled)
    /\ ~(cpc = "fetching" /\ apc # "idle")

\* C26: every submission ends with the loading state cleared, provided the
\* fetches settle: a processTranscript in flight leads to a state where it
\* has ended and the buttons are enabled, so does a processAudio, and the
\* loading state never lasts for ever
C26_LoadingEventuallyCleared ==
    /\ (cpc = "fetching") ~> (cpc = "idle" /\ ~loading)
    /\ (apc # "idle") ~> (apc = "idle" /\ ~loading)
    /\ loading ~> ~loading

\* a submission of a recording ended because the transcript was empty
C26_Witness ==
    /\ apc = "idle"
    /\ cpc = "idle"
    /\ ~loading
    /\ errorMessage = Shown(<<"No transcript generated from audio">>)

\* C27: the button submit-audio is enabled only while a file is selected,
\* be it held by audioInput or shown in the file info
C27_AudioSubmitNeedsFile ==
    ~submitAudioDisabled => (audioInputFile # "none" \/ fileInfoShown)

\* slide s apart, the two decks are the same
SameBut(s, before, after) ==
    /\ Len(after) = Len(before)
    /\ \A i \in 1..Len(before) : i # s => after[i] = before[i]

\* the sequence without its element k
Without(seq, k) ==
    [j \in 1..(Len(seq) - 1) |-> IF j < k THEN seq[j] ELSE seq[j + 1]]

EditStep ==
    \/ \E s \in 1..MaxClientSlides, v \in EditTitleTexts : TitleInput(s, v)
    \/ \E s \in 1..MaxClientSlides, p \in 1..MaxPoints, v \in EditPointTexts :
           PointInput(s, p, v)
    \/ \E s \in 1..MaxClientSlides : AddPoint(s)
    \/ \E s \in 1..MaxClientSlides, p \in 1..MaxPoints : RemovePoint(s, p)

\* C28: an edit is written to the stored deck in the step of the input:
\* a title typed is the title of the slide, a point typed is the point of
\* the slide, addPoint appends exactly one empty point to the slide chosen
\* and removePoint takes out exactly the point chosen, the others staying
\* in order; no edit changes another slide, the number of slides or the
\* preview; closing the modal leaves the deck as edited; Save Changes
\* writes the preview of the deck as edited and leaves the deck alone
C28_EditsAppliedImmediately ==
    [][ LET before == slidesData.items
            after == slidesData'.items
        IN  /\ \A s \in 1..Len(before), v \in EditTitleTexts :
                   TitleInput(s, v)
                       => /\ after[s].title = v
                          /\ after[s].points = before[s].points
                          /\ SameBut(s, before, after)
            /\ \A s \in 1..Len(before), p \in 1..MaxPoints, v \in EditPointTexts :
                   (PointInput(s, p, v) /\ before[s].hasPoints)
                       => /\ after[s].points[p] = Point(v)
                          /\ \A q \in 1..Len(before[s].points) :
                                 q # p => after[s].points[q] = before[s].points[q]
                          /\ after[s].title = before[s].title
                          /\ SameBut(s, before, after)
            /\ \A s \in 1..Len(before) :
                   AddPoint(s)
                       => /\ after[s].points = before[s].points \o <<Point(<<>>)>>
                          /\ after[s].title = before[s].title
                          /\ SameBut(s, before, after)
            /\ \A s \in 1..Len(before), p \in 1..MaxPoints :
                   (RemovePoint(s, p) /\ p <= Len(before[s].points))
                       => /\ after[s].points = Without(before[s].points, p)
                          /\ after[s].title = before[s].title
                          /\ SameBut(s, before, after)
            /\ EditStep => /\ Len(after) = Len(before)
                           /\ slidesContent' = slidesContent
                           /\ summaryContent' = summaryContent
            /\ CloseEditor => slidesData' = slidesData /\ slidesContent' = slidesContent
            /\ (SaveEdits /\ ~RenderThrows(before))
                   => /\ slidesData' = slidesData
                      /\ slidesContent' = Preview(before)
                      /\ ~editOpen' ]_vars

\* the modal was closed on a deck whose first title was typed over and
\* whose first slide lost a point: the deck keeps the edits, the preview
\* still shows the deck as it arrived
C28_Witness ==
    /\ ~editOpen
    /\ slidesData.defined
    /\ Len(slidesData.items) = 2
    /\ slidesData.items[1].title = <<"<", "&", ">">>
    /\ Len(slidesData.items[1].points) = 1
    /\ slidesContent.kind = "preview"
    /\ slidesContent.slides[1].title = <<"a">>
    /\ Len(slidesContent.slides[1].points) = 2

\* Save Changes has refreshed the preview with the edited deck
C28_WitnessSaved ==
    /\ ~editOpen
    /\ slidesData.defined
    /\ slidesData.items[1].title = <<"<", "&", ">">>
    /\ slidesContent = Preview(slidesData.items)
    /\ errorMessage = Shown(<<"Slides updated successfully!">>)

\* C29: a request that ended on a transport error of a provider (an HTTP
\* status that is not 2xx) is never answered with the parse message,
\* whatever the body the provider sent with the status
C29_TransportErrorNotParseMessage ==
    (pc = "done" /\ response.status = 500 /\ SurfacedError.kind = "http")
        => response.error # FailedToParse

C30_WitnessFailure ==
    /\ reqs[1].pc = "done" /\ reqs[2].pc = "done"
    /\ Len(reqs[1].calls) = 1
    /\ reqs[1].response.status = 500 /\ reqs[2].response.status = 500
    /\ reqs[1].response.error # reqs[2].response.error

====
